---------------------------- MODULE Spec2Model ----------------------------
(***************************************************************************)
(* A model of the LocalLLMDemo client library.                             *)
(*                                                                         *)
(*   Spec      the persistent chat session of one LocalLLM client          *)
(*             (start_chat, send_chat_message, get_history, reset_chat),   *)
(*             driven by one caller at a time.                             *)
(*   SpecChat  the stateless calls: LocalLLM.chat and generate, and the    *)
(*             Code Service operations built on generate.                  *)
(*   SpecChunk one run of chunk_text, one loop iteration per step, on      *)
(*             every input within the bounds.                              *)
(*                                                                         *)
(* Text is a sequence of one-character strings, so that str.strip() is     *)
(* computed rather than assumed.  An Optional[...] value is a set with at  *)
(* most one element.  A Python list is an object on a heap and a variable  *)
(* holds a reference to it (0 is None), so that aliasing is observable.    *)
(***************************************************************************)
EXTENDS Integers, Sequences, FiniteSets, TLC

(***************************************************************************)
(* Bounds of the model.                                                    *)
(***************************************************************************)
MaxTurns == 2
MaxMutations == 1
NumCallers == 2
MaxTextLen == 4
MaxWindow == 3
MaxMembers == 3

(***************************************************************************)
(* Optional values and text.                                               *)
(***************************************************************************)
None == {}
Some(x) == {x}
TheVal(o) == CHOOSE x \in o : TRUE

Whitespace == {" "}

RECURSIVE LStrip(_)
LStrip(s) == IF s # <<>> /\ Head(s) \in Whitespace THEN LStrip(Tail(s)) ELSE s

RECURSIVE RStrip(_)
RStrip(s) ==
  IF s # <<>> /\ s[Len(s)] \in Whitespace
  THEN RStrip(SubSeq(s, 1, Len(s) - 1))
  ELSE s

\* str.strip(): leading and trailing whitespace removed.
Strip(s) == RStrip(LStrip(s))

\* Python truthiness of an Optional[str]: None and "" are falsy.
Truthy(o) == o # None /\ TheVal(o) # <<>>

Msg(r, c) == [role |-> r, content |-> c]

(***************************************************************************)
(* Python dicts: functions from keys to values.                             *)
(***************************************************************************)
EmptyDict == [k \in {} |-> 0]

\* d.update(e)
Update(d, e) ==
  [k \in DOMAIN d \cup DOMAIN e |-> IF k \in DOMAIN e THEN e[k] ELSE d[k]]

\* d[k] = v
SetItem(d, k, v) == Update(d, [x \in {k} |-> v])

(***************************************************************************)
(* LocalLLMConfig.  Temperatures are counted in tenths (2 stands for 0.2).  *)
(***************************************************************************)
DefaultTemperature == 2

DefaultConfig ==
  [model |-> "llama3.2:3b",
   default_temperature |-> DefaultTemperature,
   default_max_tokens |-> None,
   default_options |-> EmptyDict]

(***************************************************************************)
(* LocalLLM.chat: the request.                                              *)
(***************************************************************************)
EffectiveTemperature(cfg, temperature) ==
  IF temperature # None THEN TheVal(temperature) ELSE cfg.default_temperature

EffectiveMaxTokens(cfg, max_tokens) ==
  IF max_tokens # None THEN max_tokens ELSE cfg.default_max_tokens

\* A plausible slip: the cap is set whenever a max-token value is present,
\* positive or not.
RequestOptionsAnyCap(cfg, temperature, max_tokens, options) ==
  LET eff == EffectiveMaxTokens(cfg, max_tokens)
      o1 == cfg.default_options
      o2 == SetItem(o1, "temperature", EffectiveTemperature(cfg, temperature))
      o3 == IF eff # None
            THEN SetItem(o2, "num_predict", TheVal(eff))
            ELSE o2
  IN  IF options # None /\ TheVal(options) # EmptyDict
      THEN Update(o3, TheVal(options))
      ELSE o3

\* A plausible slip: the per-call options are merged before the values
\* derived from the call arguments, which then override them.
RequestOptionsArgsLast(cfg, temperature, max_tokens, options) ==
  LET eff == EffectiveMaxTokens(cfg, max_tokens)
      o1 == cfg.default_options
      o2 == IF options # None /\ TheVal(options) # EmptyDict
            THEN Update(o1, TheVal(options))
            ELSE o1
      o3 == SetItem(o2, "temperature", EffectiveTemperature(cfg, temperature))
  IN  IF eff # None /\ TheVal(eff) > 0
      THEN SetItem(o3, "num_predict", TheVal(eff))
      ELSE o3

\* The options object of the request, built by successive dict updates.
RequestOptions(cfg, temperature, max_tokens, options) ==
  LET eff == EffectiveMaxTokens(cfg, max_tokens)
      o1 == cfg.default_options
      o2 == SetItem(o1, "temperature", EffectiveTemperature(cfg, temperature))
      o3 == IF eff # None /\ TheVal(eff) > 0
            THEN SetItem(o2, "num_predict", TheVal(eff))
            ELSE o2
  IN  IF options # None /\ TheVal(options) # EmptyDict
      THEN Update(o3, TheVal(options))
      ELSE o3

Payload(cfg, messages, temperature, max_tokens, options) ==
  [model |-> cfg.model,
   messages |-> messages,
   stream |-> FALSE,
   options |-> RequestOptions(cfg, temperature, max_tokens, options)]

(***************************************************************************)
(* What the backend may answer.  A response is a network failure or an      *)
(* HTTP response with a status and a body.  A body is bytes that are not    *)
(* JSON ("invalid") or a JSON value, of which the model keeps the type of   *)
(* the top-level value, of its "message" member and of that member's        *)
(* "content" member ("absent": no such key; "na": no such level), and the   *)
(* text of a string content.                                                *)
(***************************************************************************)
JsonTypes == {"null", "num", "str", "list", "obj"}
ReplyTexts == {<<"a">>, <<" ", "b", " ">>}
Statuses == {200, 404, 500}

Body(d, m, c, t) == [data |-> d, message |-> m, content |-> c, text |-> t]

Bodies ==
  {Body("invalid", "na", "na", <<>>)}
    \cup {Body(d, "na", "na", <<>>) : d \in JsonTypes \ {"obj"}}
    \cup {Body("obj", "absent", "na", <<>>)}
    \cup {Body("obj", m, "na", <<>>) : m \in JsonTypes \ {"obj"}}
    \cup {Body("obj", "obj", "absent", <<>>)}
    \cup {Body("obj", "obj", c, <<>>) : c \in JsonTypes \ {"str"}}
    \cup {Body("obj", "obj", "str", t) : t \in ReplyTexts}

NetworkFailure ==
  [kind |-> "network_error", status |-> 0, body |-> Body("invalid", "na", "na", <<>>)]

Responses ==
  {NetworkFailure} \cup {[kind |-> "http", status |-> s, body |-> b] : s \in Statuses, b \in Bodies}

\* response.ok: raise_for_status() raises for 4xx and 5xx.
ResponseOk(resp) == ~(400 <= resp.status /\ resp.status < 600)

\* The exception of v[key] for a JSON value of type ty whose member is of
\* type member, or "none" when the subscript yields the member.
SubscriptError(ty, member) ==
  IF ty = "obj"
  THEN IF member = "absent" THEN "KeyError" ELSE "none"
  ELSE "TypeError"

Outcome(k, c, t) == [kind |-> k, cause |-> c, text |-> t]

(***************************************************************************)
(* LocalLLM.chat: what becomes of a response.  kind is "ok" (text is the    *)
(* returned reply) or the type of the exception that leaves chat; cause is  *)
(* the exception it was raised from.                                        *)
(***************************************************************************)
ParseReply(resp) ==
  IF resp.kind = "network_error" THEN Outcome("RuntimeError", "RequestException", <<>>)
  ELSE IF ~ResponseOk(resp) THEN Outcome("RuntimeError", "RequestException", <<>>)
  ELSE IF resp.body.data = "invalid" THEN Outcome("JSONDecodeError", "none", <<>>)
  ELSE IF SubscriptError(resp.body.data, resp.body.message) # "none"
       THEN Outcome("RuntimeError", SubscriptError(resp.body.data, resp.body.message), <<>>)
  ELSE IF SubscriptError(resp.body.message, resp.body.content) # "none"
       THEN Outcome("RuntimeError", SubscriptError(resp.body.message, resp.body.content), <<>>)
  ELSE IF resp.body.content # "str" THEN Outcome("AttributeError", "none", <<>>)
  ELSE Outcome("ok", "none", Strip(resp.body.text))

(***************************************************************************)
(* State.                                                                   *)
(*   config        the client's LocalLLMConfig                              *)
(*   chat_history  LocalLLM._chat_history: a reference to a list, 0 = None  *)
(*   heap          the content of every list object                         *)
(*   pc            per caller: "idle", or "waiting" inside                  *)
(*                 send_chat_message for the backend's answer               *)
(*   net           per caller: the request in flight, if any                *)
(*   held          per caller: the list get_history returned to it, 0 = none*)
(*   mutations     per caller: how often it changed that list               *)
(*   last          per caller: its latest call and how it ended             *)
(* History variables, written by no code and read by the properties only:   *)
(*   lifecycle     which of start_chat / reset_chat was called last         *)
(*   seed          the system prompt given to the latest start_chat         *)
(*   turns         the user messages sent since then, each with the reply   *)
(*                 the call returned, if it returned one                    *)
(***************************************************************************)
VARIABLES config, chat_history, heap, pc, net, held, mutations, last,
          lifecycle, seed, turns

(***************************************************************************)
(* State of the stateless calls (chat, generate, the Code Service):         *)
(*   language      CodeService.language                                     *)
(*   call          the latest call: its operation, its phase ("waiting" for *)
(*                 the backend, or "done"), while it waits its arguments    *)
(*                 and the request in flight, the number of POSTs it made,  *)
(*                 how it ended, and what kind of failure the backend's     *)
(*                 answer was                                               *)
(* State of one run of chunk_text:                                          *)
(*   text, max_chars, overlap, start, chunks   the function's variables     *)
(*   source        the text as the caller passed it (text is rebound to     *)
(*                 its stripped value)                                      *)
(*   windows       the <<start, end>> of every pass through the loop so far *)
(*   cstate        "idle", "loop" (at the loop test), "done" (returned) or  *)
(*                 "error" (ValueError raised)                              *)
(***************************************************************************)
VARIABLES language, call, text, max_chars, overlap, start, chunks, cstate,
          source, windows

(***************************************************************************)
(* State of a ClassMetadataStore and of its JSON file.  Python dicts are    *)
(* objects: two names can hold the same dict, and a change made through one *)
(* shows through the other.                                                 *)
(*   index         the dict self._index holds (a reference into outer)      *)
(*   outer         the file-level dicts: file path -> reference of the      *)
(*                 dict of that file's symbols                              *)
(*   inner         the symbol-level dicts: symbol -> ClassMetadata          *)
(*   view          the dict the latest all() returned (0: none)             *)
(*   disk          the file at json_path: absent, text that is not JSON, or *)
(*                 a JSON document; and who wrote it last                   *)
(*   sop           the latest operation on the store, how it ended and      *)
(*                 what it returned                                         *)
(* and, kept for the properties only:                                       *)
(*   saved         (file, symbol) -> value as the store held them at the    *)
(*                 latest save, while the file is as save left it           *)
(***************************************************************************)
VARIABLES index, outer, inner, view, disk, sop, saved

(***************************************************************************)
(* State of one static extraction of a class interface:                     *)
(*   class_doc     the docstring of the class found, if it has one          *)
(*   class_body    the statements of its body, in order                     *)
(*   iface         the lines of the interface returned (none before)        *)
(***************************************************************************)
VARIABLES class_doc, class_body, iface

(***************************************************************************)
(* State of one run of WorkspaceAnalyzer.analyze on the store above:        *)
(*   workspace     the *.py files under root_dir: path (as parts, relative  *)
(*                 to root_dir) -> whether it can be read, whether it       *)
(*                 parses, its top-level classes and functions              *)
(*   backend_up    whether the LLM backend answers                          *)
(*   astate        "idle", "files" (in the loop over the files) or "done"   *)
(*   pending       the files the loop has still to visit                    *)
(*   tree          the FolderNode tree: folder -> file name -> symbol ->    *)
(*                 entry                                                    *)
(*   folder_docs   the metadata.json written into each folder               *)
(*   alog          file -> how its analysis ended                           *)
(*   root_dir      the parts of the path analyze was given as its root      *)
(***************************************************************************)
VARIABLES workspace, backend_up, astate, pending, tree, folder_docs, alog,
          root_dir

(***************************************************************************)
(*   authors       who wrote each message of the session's list: a caller   *)
(*                 for a message of the send it made last, 0 for the system *)
(*                 message and for the messages of earlier sends            *)
(***************************************************************************)
VARIABLE authors

(***************************************************************************)
(* The code-edit tool (scripts/suggest_and_apply.py) and the patch command. *)
(*   git_installed whether a git executable is on PATH                      *)
(*   target        the target file in the working tree: "base" (as the tool *)
(*                 read it), "changed" (another actor edited it) or         *)
(*                 "patched" (the diff was applied)                         *)
(*   tool          the run: where it is, its arguments, the diff, the       *)
(*                 answer to the prompt, how the check went, how the run    *)
(*                 ended, and whether the file was edited after the check   *)
(*   git_calls     the git commands run so far, in order                    *)
(***************************************************************************)
VARIABLES git_installed, target, tool, git_calls

vars == <<config, chat_history, heap, pc, net, held, mutations, last,
          lifecycle, seed, turns, authors,
          git_installed, target, tool, git_calls,
          language, call, text, max_chars, overlap, start, chunks, cstate,
          source, windows,
          index, outer, inner, view, disk, sop, saved,
          class_doc, class_body, iface,
          workspace, backend_up, astate, pending, tree, folder_docs, alog,
          root_dir>>

sessionVars == <<chat_history, heap, pc, net, held, mutations, last,
                 lifecycle, seed, turns, authors>>
callVars == <<language, call>>
chunkVars == <<text, max_chars, overlap, start, chunks, cstate, source,
               windows>>

storeVars == <<index, outer, inner, view, disk, sop, saved>>
ifaceVars == <<class_doc, class_body, iface>>
analyzerVars == <<workspace, backend_up, astate, pending, tree, folder_docs,
                  alog, root_dir>>
toolVars == <<git_installed, target, tool, git_calls>>

\* What the chat session's operations leave alone.
nonSession == <<callVars, chunkVars, storeVars, ifaceVars, analyzerVars,
                toolVars>>

Callers == 1..NumCallers
Refs == 1..(NumCallers + 2)

UserTexts == {<<"u">>, <<"v">>}
SystemPrompts == {None, Some(<<>>), Some(<<"s">>)}

\* The arguments send_chat_message passes through to chat.
CallArgs(tp, mt, op) == [temperature |-> tp, max_tokens |-> mt, options |-> op]
SendArgs == {CallArgs(None, None, None), CallArgs(None, Some(1), None)}

(***************************************************************************)
(* The heap.  A new list gets a reference no live variable holds; lists no  *)
(* variable refers to any more are collected.                               *)
(***************************************************************************)
LiveRefs(ch, hd) == ({ch} \cup {hd[t] : t \in Callers}) \ {0}

NewRef(live) ==
  CHOOSE r \in Refs : r \notin live /\ \A q \in Refs : q \notin live => r <= q

Collect(h, live) == [r \in Refs |-> IF r \in live THEN h[r] ELSE <<>>]

\* The list start_chat builds.
SeedList(sp) == IF Truthy(sp) THEN <<Msg("system", TheVal(sp))>> ELSE <<>>

\* self._chat_history or []
History == IF chat_history = 0 THEN <<>> ELSE heap[chat_history]

Result(o, k, n, r, b, m) ==
  [op |-> o, outcome |-> k, posts |-> n, reply |-> r, preLen |-> b, mut |-> m]

(***************************************************************************)
(* What the history variables say the session holds.                        *)
(***************************************************************************)
RECURSIVE Flatten(_)
Flatten(ts) ==
  IF ts = <<>> THEN <<>>
  ELSE <<Msg("user", Head(ts).user)>>
         \o (IF Head(ts).reply # None
             THEN <<Msg("assistant", TheVal(Head(ts).reply))>>
             ELSE <<>>)
         \o Flatten(Tail(ts))

SeedMessages == IF Truthy(seed) THEN <<Msg("system", TheVal(seed))>> ELSE <<>>

Said == SeedMessages \o Flatten(turns)

AllAnswered == \A i \in 1..Len(turns) : turns[i].reply # None

NoArgs == [temperature |-> None, max_tokens |-> None, options |-> None]

CallRecord(o, ph, a, rq, n, k, c, r, f) ==
  [op |-> o, phase |-> ph, args |-> a, request |-> rq, posts |-> n,
   outcome |-> k, cause |-> c, reply |-> r, failure |-> f]

NoCall == CallRecord("none", "idle", NoArgs, None, 0, "none", "none", None, "none")

InitCall ==
  /\ language = "python"
  /\ call = NoCall

InitChunk ==
  /\ text = <<>>
  /\ max_chars = 1
  /\ overlap = 0
  /\ start = 0
  /\ chunks = <<>>
  /\ cstate = "idle"
  /\ source = <<>>
  /\ windows = <<>>

\* The dict objects there can be at a time: self._index and the dict all()
\* returned; for each file, the dict the store made for its symbols and the
\* dict the holder of what all() returned put under that file key.  (The
\* store makes a dict for a file only while it holds none for it, and
\* putting a dict under a key lets go of the one that was there, so neither
\* makes a second dict for a file while its first is still held.)
Files == {"a.py", "pkg/b.py"}
OuterRefs == 1..2
InnerRefs == {"store", "holder"} \X (Files \cup {"pkg/sub/d.py"})

\* ClassMetadata(interface=..., summary=...)
ClassMetadata(i, s) == [interface |-> i, summary |-> s]

\* The latest store operation: its name, how it ended, what it returned (a
\* file -> symbol -> ClassMetadata mapping, empty when it returns nothing).
StoreOp(op, outcome, result) == [op |-> op, outcome |-> outcome, result |-> result]

\* The file at json_path.
DiskFile(kind, doc, by) == [kind |-> kind, doc |-> doc, by |-> by]
NoFile == DiskFile("absent", EmptyDict, "nobody")

\* A store constructed on a path where no file exists.
InitStore ==
  /\ index = 1
  /\ outer = [r \in OuterRefs |-> EmptyDict]
  /\ inner = [r \in InnerRefs |-> EmptyDict]
  /\ view = 0
  /\ disk = NoFile
  /\ sop = StoreOp("construct", "ok", EmptyDict)
  /\ saved = EmptyDict

\* No run of analyze yet, on an empty workspace.
InitAnalyzer ==
  /\ workspace = EmptyDict
  /\ backend_up = TRUE
  /\ astate = "idle"
  /\ pending = {}
  /\ tree = EmptyDict
  /\ folder_docs = EmptyDict
  /\ alog = EmptyDict
  /\ root_dir = <<"proj">>

\* The state of a run of the code-edit tool.
ToolRun(at, mode, auto, ask, diff, check, outcome, raced) ==
  [pc |-> at, mode |-> mode, auto_apply |-> auto, do_apply |-> ask,
   diff |-> diff, check |-> check, outcome |-> outcome, raced |-> raced]

NoRun == ToolRun("idle", "none", FALSE, FALSE, "none", "none", "none", FALSE)

\* No run of the tool yet.
InitTool ==
  /\ git_installed = TRUE
  /\ target = "base"
  /\ tool = NoRun
  /\ git_calls = <<>>

InitIface ==
  /\ class_doc = None
  /\ class_body = <<>>
  /\ iface = <<>>

InitSession ==
  /\ chat_history = 0
  /\ heap = [r \in Refs |-> <<>>]
  /\ pc = [t \in Callers |-> "idle"]
  /\ net = [t \in Callers |-> None]
  /\ held = [t \in Callers |-> 0]
  /\ mutations = [t \in Callers |-> 0]
  /\ last = [t \in Callers |-> Result("none", "none", 0, None, 0, FALSE)]
  /\ lifecycle = "never"
  /\ seed = None
  /\ turns = <<>>
  /\ authors = <<>>

Init ==
  /\ config = DefaultConfig
  /\ InitSession
  /\ InitCall
  /\ InitChunk
  /\ InitStore
  /\ InitIface
  /\ InitAnalyzer
  /\ InitTool

(***************************************************************************)
(* start_chat(system_prompt).  The caller lets go of the snapshot it held.  *)
(***************************************************************************)
\* A plausible slip: a list is created only when there is none yet, so an
\* existing session's messages stay and the system message is appended to them.
StartChatKeeping(t, sp) ==
  /\ pc[t] = "idle"
  /\ LET hd == [held EXCEPT ![t] = 0]
         r == IF chat_history = 0 THEN NewRef(LiveRefs(chat_history, hd))
              ELSE chat_history
     IN  /\ chat_history' = r
         /\ heap' = Collect([heap EXCEPT ![r] = History \o SeedList(sp)],
                            LiveRefs(r, hd))
         /\ authors' = authors \o [i \in 1..Len(SeedList(sp)) |-> 0]
         /\ held' = hd
  /\ mutations' = [mutations EXCEPT ![t] = 0]
  /\ last' = [last EXCEPT ![t] =
                Result("start_chat", "ok", 0, None, Len(History), FALSE)]
  /\ lifecycle' = "started"
  /\ seed' = sp
  /\ turns' = <<>>
  /\ UNCHANGED <<config, pc, net, nonSession>>

StartChat(t, sp) ==
  /\ pc[t] = "idle"
  /\ LET hd == [held EXCEPT ![t] = 0]
         r == NewRef(LiveRefs(chat_history, hd))
     IN  /\ chat_history' = r
         /\ heap' = Collect([heap EXCEPT ![r] = SeedList(sp)], LiveRefs(r, hd))
         /\ authors' = [i \in 1..Len(SeedList(sp)) |-> 0]
         /\ held' = hd
  /\ mutations' = [mutations EXCEPT ![t] = 0]
  /\ last' = [last EXCEPT ![t] =
                Result("start_chat", "ok", 0, None, Len(History), FALSE)]
  /\ lifecycle' = "started"
  /\ seed' = sp
  /\ turns' = <<>>
  /\ UNCHANGED <<config, pc, net, nonSession>>

(***************************************************************************)
(* reset_chat().  The caller lets go of the snapshot it held.               *)
(***************************************************************************)
ResetChat(t) ==
  /\ pc[t] = "idle"
  /\ LET hd == [held EXCEPT ![t] = 0]
     IN  /\ chat_history' = 0
         /\ heap' = Collect(heap, LiveRefs(0, hd))
         /\ authors' = <<>>
         /\ held' = hd
  /\ mutations' = [mutations EXCEPT ![t] = 0]
  /\ last' = [last EXCEPT ![t] =
                Result("reset_chat", "ok", 0, None, Len(History), FALSE)]
  /\ lifecycle' = "reset"
  /\ seed' = None
  /\ turns' = <<>>
  /\ UNCHANGED <<config, pc, net, nonSession>>

(***************************************************************************)
(* send_chat_message, first half: the session check, the user message and   *)
(* the POST of the whole history.  The request body is serialised when the  *)
(* POST is made, so the request in flight is a value, not a reference.      *)
(***************************************************************************)
\* A plausible slip: "if not self._chat_history" also rejects an empty session.
NoSessionOrEmpty(ch) == ch = 0 \/ heap[ch] = <<>>

\* if self._chat_history is None
NoSession(ch) == ch = 0

\* A plausible slip: only the newest message is sent.
ReplayLatestOnly(h) == <<h[Len(h)]>>

\* messages=self._chat_history
ReplayMessages(h) == h

\* self._chat_history.append({"role": "user", ...})
WithUser(h, um) == Append(h, Msg("user", um))

\* A plausible slip: the reply is returned but not stored.
WithAssistantDropped(h, reply) == h

\* self._chat_history.append({"role": "assistant", ...})
WithAssistant(h, reply) == Append(h, Msg("assistant", reply))

SendBegin(t, um, a) ==
  /\ pc[t] = "idle"
  /\ IF NoSession(chat_history)
     THEN /\ last' = [last EXCEPT ![t] =
                        Result("send", "NoSession", 0, None, Len(History),
                               mutations[t] > 0)]
          /\ UNCHANGED <<heap, pc, net, turns, authors>>
     ELSE /\ Len(turns) < MaxTurns
          /\ heap' = [heap EXCEPT ![chat_history] = WithUser(@, um)]
          /\ authors' = [i \in 1..Len(heap'[chat_history]) |->
                           IF i > Len(authors) THEN t
                           ELSE IF authors[i] = t THEN 0 ELSE authors[i]]
          /\ net' = [net EXCEPT ![t] =
                       Some(Payload(config, ReplayMessages(heap'[chat_history]),
                                    a.temperature, a.max_tokens, a.options))]
          /\ pc' = [pc EXCEPT ![t] = "waiting"]
          /\ last' = [last EXCEPT ![t] =
                        Result("send", "pending", 1, None, Len(History),
                               mutations[t] > 0)]
          /\ turns' = Append(turns, [user |-> um, reply |-> None])
  /\ UNCHANGED <<config, chat_history, held, mutations, lifecycle, seed, nonSession>>

(***************************************************************************)
(* send_chat_message, second half: the backend's answer arrives, chat       *)
(* parses it, and the reply is appended to whatever self._chat_history      *)
(* refers to at that time.                                                  *)
(***************************************************************************)
\* A plausible slip: a failed call takes the user message back.
AfterFailedCallRolledBack(h) == SubSeq(h, 1, Len(h) - 1)

\* The exception of self.chat leaves send_chat_message; no handler removes
\* the user message.
AfterFailedCall(h) == h

SendEnd(t, resp) ==
  /\ pc[t] = "waiting"
  /\ LET out == ParseReply(resp)
         was == last[t]
     IN  IF out.kind # "ok"
         THEN /\ last' = [last EXCEPT ![t] =
                            Result("send", out.kind, 1, None, was.preLen, was.mut)]
              /\ heap' = IF chat_history = 0 THEN heap
                         ELSE [heap EXCEPT ![chat_history] = AfterFailedCall(@)]
              /\ authors' = IF chat_history = 0 THEN authors
                            ELSE SubSeq(authors, 1, Len(heap'[chat_history]))
              /\ UNCHANGED turns
         ELSE IF chat_history = 0
         THEN /\ last' = [last EXCEPT ![t] =
                            Result("send", "AttributeError", 1, None, was.preLen, was.mut)]
              /\ UNCHANGED <<heap, turns, authors>>
         ELSE /\ heap' = [heap EXCEPT ![chat_history] = WithAssistant(@, out.text)]
              /\ authors' = [i \in 1..Len(heap'[chat_history]) |->
                               IF i > Len(authors) THEN t ELSE authors[i]]
              /\ last' = [last EXCEPT ![t] =
                            Result("send", "ok", 1, Some(out.text), was.preLen, was.mut)]
              /\ turns' = IF turns = <<>> THEN turns
                          ELSE [turns EXCEPT ![Len(turns)].reply = Some(out.text)]
  /\ pc' = [pc EXCEPT ![t] = "idle"]
  /\ net' = [net EXCEPT ![t] = None]
  /\ UNCHANGED <<config, chat_history, held, mutations, lifecycle, seed, nonSession>>

(***************************************************************************)
(* get_history(): list(self._chat_history or []), a new list each time.     *)
(***************************************************************************)
\* A plausible slip: "return self._chat_history or []" hands out the list itself.
GetHistoryAlias(t) ==
  /\ pc[t] = "idle"
  /\ LET hd0 == [held EXCEPT ![t] = 0]
         r == IF History # <<>> THEN chat_history
              ELSE NewRef(LiveRefs(chat_history, hd0))
         hd == [held EXCEPT ![t] = r]
     IN  /\ heap' = Collect([heap EXCEPT ![r] = History], LiveRefs(chat_history, hd))
         /\ held' = hd
  /\ mutations' = [mutations EXCEPT ![t] = 0]
  /\ last' = [last EXCEPT ![t] =
                Result("get_history", "ok", 0, None, Len(History), mutations[t] > 0)]
  /\ UNCHANGED <<config, chat_history, pc, net, lifecycle, seed, turns, authors,
                 nonSession>>

GetHistory(t) ==
  /\ pc[t] = "idle"
  /\ LET hd0 == [held EXCEPT ![t] = 0]
         r == NewRef(LiveRefs(chat_history, hd0))
         hd == [held EXCEPT ![t] = r]
     IN  /\ heap' = Collect([heap EXCEPT ![r] = History], LiveRefs(chat_history, hd))
         /\ held' = hd
  /\ mutations' = [mutations EXCEPT ![t] = 0]
  /\ last' = [last EXCEPT ![t] =
                Result("get_history", "ok", 0, None, Len(History), mutations[t] > 0)]
  /\ UNCHANGED <<config, chat_history, pc, net, lifecycle, seed, turns, authors,
                 nonSession>>

(***************************************************************************)
(* The caller adds an element to the list get_history gave it, or removes   *)
(* one from it.                                                             *)
(***************************************************************************)
Junk == Msg("user", <<"x">>)

MutateSnapshot(t) ==
  /\ pc[t] = "idle"
  /\ held[t] # 0
  /\ mutations[t] < MaxMutations
  /\ \/ heap' = [heap EXCEPT ![held[t]] = Append(@, Junk)]
     \/ /\ heap[held[t]] # <<>>
        /\ heap' = [heap EXCEPT ![held[t]] = Tail(@)]
  /\ mutations' = [mutations EXCEPT ![t] = @ + 1]
  /\ last' = [last EXCEPT ![t] =
                Result("mutate", "ok", 0, None, Len(History), FALSE)]
  /\ UNCHANGED <<config, chat_history, pc, net, held, lifecycle, seed, turns, authors,
                 nonSession>>

(***************************************************************************)
(* The chat session used by one caller: every call returns before the next  *)
(* one is made.                                                             *)
(***************************************************************************)
TheCaller == 1

Next ==
  \/ \E sp \in SystemPrompts : StartChat(TheCaller, sp)
  \/ ResetChat(TheCaller)
  \/ \E um \in UserTexts, a \in SendArgs : SendBegin(TheCaller, um, a)
  \/ \E resp \in Responses : SendEnd(TheCaller, resp)
  \/ GetHistory(TheCaller)
  \/ MutateSnapshot(TheCaller)

Spec == Init /\ [][Next]_vars

(***************************************************************************)
(* Properties of the chat session (checked under Spec).                     *)
(***************************************************************************)

\* C1: send_chat_message ends with the no-active-session error exactly when
\* no session is active, that is when start_chat was never called or
\* reset_chat was called after the latest start_chat; it then made no backend
\* request and the session is still inactive, with an empty history.
C1_NoSessionExactlyWhenInactive ==
  last[TheCaller].op = "send" =>
    /\ (last[TheCaller].outcome = "NoSession") <=> (lifecycle # "started")
    /\ last[TheCaller].outcome = "NoSession" =>
         /\ last[TheCaller].posts = 0
         /\ net[TheCaller] = None
         /\ pc[TheCaller] = "idle"
         /\ chat_history = 0
         /\ History = <<>>

\* A send has failed for want of a session after start_chat and then
\* reset_chat were called.
C1_Witness ==
  /\ last[TheCaller].op = "send"
  /\ last[TheCaller].outcome = "NoSession"
  /\ lifecycle = "reset"

\* C2: after start_chat and n sends that each returned a reply, get_history
\* returns the system message (only if a non-empty system prompt was given)
\* followed by user_1, assistant_1, ..., user_n, assistant_n in send order:
\* 2n messages, or 2n + 1 with the system message.
C2_HistoryAfterSends ==
  (last[TheCaller].op = "get_history" /\ lifecycle = "started" /\ AllAnswered) =>
    LET h == heap[held[TheCaller]]
        n == Len(turns)
        off == IF Truthy(seed) THEN 1 ELSE 0
    IN  /\ Len(h) = 2 * n + off
        /\ off = 1 => h[1] = Msg("system", TheVal(seed))
        /\ \A i \in 1..n :
             /\ h[off + 2 * i - 1] = Msg("user", turns[i].user)
             /\ h[off + 2 * i] = Msg("assistant", TheVal(turns[i].reply))

\* get_history has returned after start_chat(None) and two answered sends.
C2_Witness ==
  /\ last[TheCaller].op = "get_history"
  /\ lifecycle = "started"
  /\ seed = None
  /\ Len(turns) = 2
  /\ AllAnswered
  /\ turns[1].user # turns[2].user

\* C3: the message list of every request send_chat_message posts is the whole
\* accumulated history: the system message if there is one, every earlier
\* user message and reply in their order, and the new user message last.
C3_WholeHistoryReplayed ==
  \A t \in Callers :
    pc[t] = "waiting" =>
      /\ net[t] # None
      /\ turns # <<>>
      /\ TheVal(net[t]).messages = Said
      /\ TheVal(net[t]).messages[Len(Said)] = Msg("user", turns[Len(turns)].user)

\* A request is in flight in a session with a system message and an earlier
\* answered turn.
C3_Witness ==
  /\ pc[TheCaller] = "waiting"
  /\ Truthy(seed)
  /\ Len(turns) = 2
  /\ turns[1].reply # None

\* C4: right after start_chat, whatever the session held before, the history
\* is empty, or exactly the one system message when a non-empty system prompt
\* was given.
C4_StartChatDiscards ==
  last[TheCaller].op = "start_chat" =>
    /\ chat_history # 0
    /\ History = (IF Truthy(seed) THEN <<Msg("system", TheVal(seed))>> ELSE <<>>)

\* start_chat with a system prompt has returned in a session that held
\* messages.
C4_Witness ==
  /\ last[TheCaller].op = "start_chat"
  /\ last[TheCaller].preLen >= 2
  /\ Truthy(seed)

\* C5: get_history, and adding or removing elements of the list it returned,
\* leave the session as it was (an inactive session stays inactive and the
\* next send still fails); after such a change a later get_history still
\* returns, and a later send still replays, what was said in the session.
C5_GetHistoryIsSnapshot ==
  [][LET t == TheCaller
     IN  /\ last'[t].op \in {"get_history", "mutate"} =>
               (chat_history' = chat_history /\ History' = History)
         /\ (last'[t].op = "get_history" /\ last'[t].mut) =>
               heap'[held'[t]] = Said'
         /\ (last'[t].op = "send" /\ pc'[t] = "waiting" /\ last'[t].mut) =>
               TheVal(net'[t]).messages = Said'
         /\ (last[t].op \in {"get_history", "mutate"} /\ lifecycle # "started"
               /\ last'[t].op = "send") =>
               last'[t].outcome = "NoSession"
    ]_vars

\* get_history has returned in a session with messages after the caller
\* changed the list an earlier get_history gave it.
C5_Witness ==
  /\ last[TheCaller].op = "get_history"
  /\ last[TheCaller].mut
  /\ Len(History) >= 2

\* C25: when the backend call of a send fails, the error leaves
\* send_chat_message, the user message of that send stays at the end of the
\* history and the session stays active; the next send replays that
\* unanswered user message right before its own, and when it succeeds the
\* history ends with the two user messages and the one reply.
C25_FailedSendKeepsUserMessage ==
  LET t == TheCaller
      n == Len(turns)
      h == History
  IN  /\ (last[t].op = "send" /\ last[t].outcome \notin {"ok", "pending", "NoSession"}) =>
            /\ chat_history # 0
            /\ lifecycle = "started"
            /\ Len(h) = last[t].preLen + 1
            /\ h[Len(h)] = Msg("user", turns[n].user)
            /\ turns[n].reply = None
      /\ (pc[t] = "waiting" /\ n >= 2 /\ turns[n - 1].reply = None) =>
            LET m == TheVal(net[t]).messages
            IN  /\ Len(m) >= 2
                /\ m[Len(m) - 1] = Msg("user", turns[n - 1].user)
                /\ m[Len(m)] = Msg("user", turns[n].user)
      /\ (last[t].op = "send" /\ last[t].outcome = "ok" /\ n >= 2
            /\ turns[n - 1].reply = None) =>
            /\ Len(h) >= 3
            /\ h[Len(h) - 2] = Msg("user", turns[n - 1].user)
            /\ h[Len(h) - 1] = Msg("user", turns[n].user)
            /\ h[Len(h)] = Msg("assistant", TheVal(last[t].reply))

\* A send has returned a reply right after a send whose backend call failed.
C25_Witness ==
  /\ last[TheCaller].op = "send"
  /\ last[TheCaller].outcome = "ok"
  /\ Len(turns) = 2
  /\ turns[1].reply = None
  /\ turns[1].user # turns[2].user
  /\ Len(History) = 3

(***************************************************************************)
(* The chat session behind the HTTP API: one LocalLLM for every request,    *)
(* and handlers that run on worker threads, so a request can start while    *)
(* another one waits for the backend.  The backend answers with a          *)
(* well-formed reply or not at all.                                         *)
(***************************************************************************)
ApiResponses ==
  {NetworkFailure,
   [kind |-> "http", status |-> 200, body |-> Body("obj", "obj", "str", <<"a">>)]}

\* The text a caller sends: each caller has its own.
ApiUserText(t) == IF t = 1 THEN <<"u">> ELSE <<"v">>

\* The requests that overlap.
ApiCallers == {1, 2}

NextApi ==
  \E t \in ApiCallers :
    \/ \E sp \in {None, Some(<<"s">>)} : StartChat(t, sp)
    \/ ResetChat(t)
    \/ SendBegin(t, ApiUserText(t), CallArgs(None, None, None))
    \/ \E resp \in ApiResponses : SendEnd(t, resp)

SpecApi == Init /\ [][NextApi]_vars

Roles(h) == [i \in 1..Len(h) |-> h[i].role]

\* The messages caller t's latest send wrote are still in the session's list.
Wrote(t) == \E i \in 1..Len(authors) : authors[i] = t

\* C26: two sends on one client can overlap: both user messages are appended
\* before either reply, the later request replays the earlier one's
\* unanswered user message right before its own, and when both replies have
\* arrived the history ends user, user, assistant, assistant.
C26_OverlappingSendsInterleave ==
  \A t, u \in ApiCallers :
    LET h == History
        n == Len(h)
    IN  /\ (t # u /\ pc[t] = "waiting" /\ pc[u] = "waiting" /\ n >= 2
              /\ Len(authors) = n /\ authors[n - 1] = t /\ authors[n] = u) =>
              /\ h[n - 1].role = "user"
              /\ h[n].role = "user"
              /\ TheVal(net[t]).messages = SubSeq(h, 1, n - 1)
              /\ TheVal(net[u]).messages = h
        /\ (t # u /\ pc[t] = "idle" /\ pc[u] = "idle" /\ n >= 4
              /\ Len(authors) = n /\ authors[n - 3] = t /\ authors[n - 2] = u
              /\ {authors[n - 1], authors[n]} = {t, u}) =>
              /\ SubSeq(Roles(h), n - 3, n) = <<"user", "user", "assistant", "assistant">>
              /\ last[t].outcome = "ok"
              /\ last[u].outcome = "ok"

\* Two overlapping sends have both returned; the history is the two user
\* messages followed by the two replies.
C26_Witness ==
  /\ pc[1] = "idle"
  /\ pc[2] = "idle"
  /\ last[1].op = "send"
  /\ last[2].op = "send"
  /\ last[1].outcome = "ok"
  /\ last[2].outcome = "ok"
  /\ Roles(History) = <<"user", "user", "assistant", "assistant">>
  /\ authors \in {<<1, 2, 1, 2>>, <<1, 2, 2, 1>>}

\* C27: a send that was waiting while reset_chat or start_chat ran leaves no
\* message of its own in the history when it ends, and it ends by returning
\* its reply or with the no-active-session or the backend error.
C27_InterruptedSendLeavesNothing ==
  [][\A t \in ApiCallers :
       (pc[t] = "waiting" /\ pc'[t] = "idle" /\ ~Wrote(t)) =>
         /\ ~Wrote(t)'
         /\ last'[t].outcome \in {"ok", "NoSession", "RuntimeError"}
    ]_vars

(***************************************************************************)
(* The stateless calls.  Inputs: every config and every combination of call *)
(* arguments over three option keys; the values differ by the level they    *)
(* come from, so that the level a sent value came from can be told.         *)
(***************************************************************************)
OptionKeys == {"temperature", "num_predict", "top_p"}
ConfigOptionValue == 7
CallOptionValue == 9

DictsOf(v) == {[k \in K |-> v] : K \in SUBSET OptionKeys}

Configs ==
  {[model |-> "llama3.2:3b",
    default_temperature |-> DefaultTemperature,
    default_max_tokens |-> m,
    default_options |-> d] : m \in {None, Some(-1), Some(3)},
                             d \in DictsOf(ConfigOptionValue)}

ChatArgs ==
  {CallArgs(tp, mt, op) : tp \in {None, Some(0)},
                          mt \in {None, Some(0), Some(4)},
                          op \in {None} \cup {Some(d) : d \in DictsOf(CallOptionValue)}}

GenerateArgs == {CallArgs(None, mt, None) : mt \in {None, Some(0), Some(4)}}

Languages == {"python", "Python", "javascript"}

\* str.lower() on the languages of the model.
LowerCase(l) == IF l = "Python" THEN "python" ELSE l

\* What ast.parse and the search for the class make of CodeService.code.
CodeShapes == {"syntax_error", "class_missing", "class_found"}

PromptOps ==
  {"refactor_class", "add_functionality_to_class", "generate_docstrings",
   "write_unit_tests", "describe_class", "suggest_improvements",
   "explain_method", "generate_usage_examples", "review_diff_for_merge_request"}

\* The prompt an operation builds: a fixed template per operation.
PromptOf(o) == <<o>>

InitChat ==
  /\ config \in Configs
  /\ language \in Languages
  /\ call = NoCall
  /\ InitSession
  /\ InitChunk
  /\ InitStore
  /\ InitIface
  /\ InitAnalyzer
  /\ InitTool

\* What the stateless calls leave alone.
nonCall == <<sessionVars, chunkVars, storeVars, ifaceVars, analyzerVars,
             toolVars>>

\* The kinds of backend failure: no answer, an error status, a body that is
\* not JSON, a JSON body without a string at message.content.
FailureKind(resp) ==
  IF resp.kind = "network_error" THEN "network"
  ELSE IF resp.status >= 400 THEN "status"
  ELSE IF resp.body.data = "invalid" THEN "not_json"
  ELSE IF ~(resp.body.data = "obj" /\ resp.body.message = "obj"
            /\ resp.body.content = "str") THEN "no_string_content"
  ELSE "none"

\* generate: the optional system message, then the prompt as user message.
GenerateMessages(prompt, sp) ==
  (IF Truthy(sp) THEN <<Msg("system", TheVal(sp))>> ELSE <<>>)
    \o <<Msg("user", prompt)>>

\* chat up to and including session.post: one POST of the payload.
Post(o, msgs, a) ==
  /\ call.phase # "waiting"
  /\ call' = CallRecord(o, "waiting", a,
                        Some(Payload(config, msgs, a.temperature, a.max_tokens,
                                     a.options)),
                        1, "none", "none", None, "none")
  /\ UNCHANGED <<config, language, nonCall>>

ChatCall(msgs, a) == Post("chat", msgs, a)

GenerateCall(prompt, sp, a) == Post("generate", GenerateMessages(prompt, sp), a)

\* The nine prompt operations of the Code Service: self.llm.generate(prompt,
\* max_tokens).
CodeServicePrompt(o, mt) ==
  Post(o, GenerateMessages(PromptOf(o), None), CallArgs(None, mt, None))

\* A plausible slip: the language is compared without lower().
UsesStaticExtractionExact(l) == l = "python"

\* if self.language.lower() == "python"
UsesStaticExtraction(l) == LowerCase(l) = "python"

\* get_class_interface: the ast path (no request) or the prompt path.
GetClassInterface(shape) ==
  IF UsesStaticExtraction(language)
  THEN /\ call.phase # "waiting"
       /\ call' = CallRecord("get_class_interface", "done", NoArgs, None, 0,
                             IF shape = "class_found" THEN "ok" ELSE "ValueError",
                             IF shape = "syntax_error" THEN "SyntaxError" ELSE "none",
                             None, "none")
       /\ UNCHANGED <<config, language, nonCall>>
  ELSE Post("get_class_interface",
            GenerateMessages(PromptOf("get_class_interface"), None), NoArgs)

\* chat from the backend's answer on: the call returns or raises.
ChatReturn(resp) ==
  /\ call.phase = "waiting"
  /\ LET out == ParseReply(resp)
     IN  call' = CallRecord(call.op, "done", NoArgs, None, call.posts,
                            out.kind, out.cause,
                            IF out.kind = "ok" THEN Some(out.text) ELSE None,
                            FailureKind(resp))
  /\ UNCHANGED <<config, language, nonCall>>

NextChat ==
  \/ \E a \in ChatArgs : ChatCall(<<Msg("user", <<"u">>)>>, a)
  \/ \E sp \in SystemPrompts, a \in GenerateArgs : GenerateCall(<<"u">>, sp, a)
  \/ \E o \in PromptOps, mt \in {None, Some(0), Some(4)} : CodeServicePrompt(o, mt)
  \/ \E shape \in CodeShapes : GetClassInterface(shape)
  \/ \E resp \in Responses : ChatReturn(resp)

SpecChat == InitChat /\ [][NextChat]_vars

(***************************************************************************)
(* Properties of the stateless calls (checked under SpecChat).              *)
(***************************************************************************)

\* C6: chat, and generate through it, ends with a RuntimeError carrying the
\* original cause for every kind of backend failure: no answer, an error
\* status, a body that is not JSON, a JSON body without a string at
\* message.content.
C6_EveryFailureIsRuntimeError ==
  (call.phase = "done" /\ call.op \in {"chat", "generate"}
     /\ call.failure # "none") =>
    (call.outcome = "RuntimeError" /\ call.cause # "none")

\* The options object of the request in flight.
SentOptions == TheVal(call.request).options

\* The effective max-token value (the call's max_tokens, else the config's
\* default_max_tokens) is present and positive.
CapWanted ==
  \/ call.args.max_tokens # None /\ TheVal(call.args.max_tokens) > 0
  \/ /\ call.args.max_tokens = None
     /\ config.default_max_tokens # None
     /\ TheVal(config.default_max_tokens) > 0

CapValue ==
  IF call.args.max_tokens # None THEN TheVal(call.args.max_tokens)
  ELSE TheVal(config.default_max_tokens)

\* The per-call options as a dict (none given: the empty dict).
CallOptions ==
  IF call.args.options = None THEN EmptyDict ELSE TheVal(call.args.options)

\* C7 as stated: a request carries num_predict only if the effective
\* max-token value is present and positive, whatever the config
\* default_options and the per-call options are.
C7_CapOnlyIfWanted ==
  call.phase = "waiting" =>
    ("num_predict" \in DOMAIN SentOptions => CapWanted)

\* C7, amended: a request carries num_predict only if the effective
\* max-token value is present and positive, or num_predict is itself a key
\* of the config default_options or of the per-call options.
C7_CapOnlyIfWantedOrGiven ==
  call.phase = "waiting" =>
    ("num_predict" \in DOMAIN SentOptions =>
       \/ CapWanted
       \/ "num_predict" \in DOMAIN config.default_options
       \/ "num_predict" \in DOMAIN CallOptions)

\* A request carries the cap because of a positive max-token value alone.
C7_Witness ==
  /\ call.phase = "waiting"
  /\ "num_predict" \in DOMAIN SentOptions
  /\ CapWanted
  /\ "num_predict" \notin DOMAIN config.default_options
  /\ "num_predict" \notin DOMAIN CallOptions

\* C8: the options sent are the config default_options, overridden by the
\* values derived from the call arguments (temperature always, num_predict
\* when the effective max-token value is present and positive), overridden
\* by the per-call options: each key carries the value of the highest level
\* that has it, and no other key is sent.
C8_OptionPrecedence ==
  call.phase = "waiting" =>
    LET derivedKeys == {"temperature"}
                         \cup (IF CapWanted THEN {"num_predict"} ELSE {})
        derived(k) ==
          IF k = "num_predict" THEN CapValue
          ELSE IF call.args.temperature # None THEN TheVal(call.args.temperature)
          ELSE config.default_temperature
    IN  /\ DOMAIN SentOptions =
             DOMAIN CallOptions \cup derivedKeys \cup DOMAIN config.default_options
        /\ \A k \in DOMAIN SentOptions :
             SentOptions[k] =
               IF k \in DOMAIN CallOptions THEN CallOptions[k]
               ELSE IF k \in derivedKeys THEN derived(k)
               ELSE config.default_options[k]

\* A request is in flight whose temperature and num_predict are given at all
\* three levels.
C8_Witness ==
  /\ call.phase = "waiting"
  /\ call.args.temperature # None
  /\ CapWanted
  /\ {"temperature", "num_predict"} \subseteq DOMAIN CallOptions
  /\ {"temperature", "num_predict"} \subseteq DOMAIN config.default_options

\* The language names Python, in any letter case.
IsPython(l) == l \in {"python", "Python"}

\* C9: every prompt operation of the Code Service makes exactly one POST per
\* call, whether the call returns or raises; get_class_interface makes none
\* when the language is Python and exactly one otherwise.
C9_OnePostPerCall ==
  /\ call.op \in PromptOps => call.posts = 1
  /\ call.op = "get_class_interface" =>
       call.posts = (IF IsPython(language) THEN 0 ELSE 1)
  /\ (call.phase = "done" /\ call.posts = 0) => call.failure = "none"

\* A prompt operation has failed on the backend, and it made one POST.
C9_Witness ==
  /\ call.phase = "done"
  /\ call.op \in PromptOps
  /\ call.outcome = "RuntimeError"
  /\ call.posts = 1

(***************************************************************************)
(* chunk_text(text, max_chars, overlap), one run.  Init draws the inputs;   *)
(* ChunkCall is the function up to the loop (argument checks, strip, the    *)
(* early return), ChunkIter one pass through the loop body.                 *)
(***************************************************************************)
Alphabet == {"a", "b", " "}

RECURSIVE TextsOfLen(_)
TextsOfLen(n) ==
  IF n = 0 THEN {<<>>}
  ELSE {Append(t, c) : t \in TextsOfLen(n - 1), c \in Alphabet}

Texts == UNION {TextsOfLen(n) : n \in 0..MaxTextLen}

InitChunkRun ==
  /\ text \in Texts
  /\ max_chars \in -1..MaxWindow
  /\ overlap \in -1..MaxWindow
  /\ start = 0
  /\ chunks = <<>>
  /\ cstate = "idle"
  /\ source = text
  /\ windows = <<>>
  /\ config = DefaultConfig
  /\ InitSession
  /\ InitCall
  /\ InitStore
  /\ InitIface
  /\ InitAnalyzer
  /\ InitTool

\* What chunk_text leaves alone.
nonChunk == <<config, sessionVars, callVars, storeVars, ifaceVars,
             analyzerVars, toolVars>>

\* A plausible slip: the check of a negative overlap is missing.
InvalidArgsNoNegative(m, o) == m <= 0 \/ o >= m

\* The three argument checks; any failing one raises ValueError.
InvalidArgs(m, o) == m <= 0 \/ o < 0 \/ o >= m

ChunkCall ==
  /\ cstate = "idle"
  /\ IF InvalidArgs(max_chars, overlap)
     THEN /\ cstate' = "error"
          /\ UNCHANGED text
     ELSE /\ text' = Strip(text)
          /\ cstate' = IF Strip(text) = <<>> THEN "done" ELSE "loop"
  /\ UNCHANGED <<max_chars, overlap, start, chunks, source, windows, nonChunk>>

\* min(start + max_chars, text_len)
WindowEnd(s, m, n) == IF s + m < n THEN s + m ELSE n

\* text[s:e]
Slice(t, s, e) == SubSeq(t, s + 1, e)

\* A plausible slip: a chunk of one character counts as empty.
KeepChunkLong(chunk) == Len(chunk) > 1

\* if chunk:
KeepChunk(chunk) == chunk # <<>>

\* A plausible slip: the next window starts where this one ended.
NextStartNoOverlap(end, o) == end

\* A plausible slip: the step back is one character short.
NextStartShort(end, o) == end - o + 1

\* start = end - overlap
NextStart(end, o) == end - o

\* A plausible slip: the loop has no break at the end of the text, and steps
\* back by the overlap there too.
ChunkIterNoBreak ==
  /\ cstate = "loop"
  /\ IF start < Len(text)
     THEN LET end == WindowEnd(start, max_chars, Len(text))
              chunk == Strip(Slice(text, start, end))
          IN  /\ chunks' = IF KeepChunk(chunk) THEN Append(chunks, chunk) ELSE chunks
              /\ windows' = Append(windows, <<start, end>>)
              /\ start' = NextStart(end, overlap)
              /\ UNCHANGED cstate
     ELSE /\ cstate' = "done"
          /\ UNCHANGED <<start, chunks, windows>>
  /\ UNCHANGED <<text, max_chars, overlap, source, nonChunk>>

ChunkIter ==
  /\ cstate = "loop"
  /\ IF start < Len(text)
     THEN LET end == WindowEnd(start, max_chars, Len(text))
              chunk == Strip(Slice(text, start, end))
          IN  /\ chunks' = IF KeepChunk(chunk) THEN Append(chunks, chunk) ELSE chunks
              /\ windows' = Append(windows, <<start, end>>)
              /\ IF end = Len(text)
                 THEN cstate' = "done" /\ UNCHANGED start
                 ELSE start' = NextStart(end, overlap) /\ UNCHANGED cstate
     ELSE /\ cstate' = "done"
          /\ UNCHANGED <<start, chunks, windows>>
  /\ UNCHANGED <<text, max_chars, overlap, source, nonChunk>>

\* The number of passes the loop makes from window start s over a text of
\* n characters: the loop's arithmetic alone.
RECURSIVE WindowsFrom(_, _, _, _)
WindowsFrom(s, n, m, o) ==
  LET end == WindowEnd(s, m, n)
  IN  IF end = n THEN 1 ELSE 1 + WindowsFrom(NextStart(end, o), n, m, o)

NextChunk == ChunkCall \/ ChunkIter

\* The call is made and, once running, keeps running: chunk_text is
\* straight-line code that waits for nothing.
SpecChunk == InitChunkRun /\ [][NextChunk]_vars /\ WF_vars(NextChunk)

(***************************************************************************)
(* Properties of chunk_text (checked under SpecChunk).                      *)
(***************************************************************************)

\* C10: with max_chars > 0 and 0 <= overlap < max_chars, chunk_text
\* terminates on every text, the window start growing on every pass through
\* the loop that does not end it, and every chunk produced is non-empty and
\* at most max_chars characters long.
C10_ChunkingTerminates ==
  /\ [][(cstate = "loop" /\ cstate' = "loop") => start' > start]_vars
  /\ [](cstate \in {"loop", "done"} =>
          \A i \in 1..Len(chunks) :
            chunks[i] # <<>> /\ Len(chunks[i]) <= max_chars)
  /\ [](cstate = "loop" => start < Len(text))
  /\ (cstate = "idle" /\ ~InvalidArgs(max_chars, overlap)) ~> (cstate = "done")

\* A run with a positive overlap over a text of full length has ended after
\* several windows.
C10_Witness ==
  /\ cstate = "done"
  /\ overlap > 0
  /\ Len(chunks) >= 2
  /\ start > 0
  /\ Len(text) = MaxTextLen

\* The parameters pass the three checks, written out as the contract
\* states them.
ValidParameters == max_chars > 0 /\ overlap >= 0 /\ overlap < max_chars

\* c without its first o characters.
DropFirst(c, o) == IF o >= Len(c) THEN <<>> ELSE SubSeq(c, o + 1, Len(c))

\* The last o characters of c, and the first o.
LastChars(c, o) == IF o >= Len(c) THEN c ELSE SubSeq(c, Len(c) - o + 1, Len(c))
FirstChars(c, o) == IF o >= Len(c) THEN c ELSE SubSeq(c, 1, o)

\* The first piece followed by every later piece minus its first o
\* characters.
RECURSIVE Rebuild(_, _)
Rebuild(pieces, o) ==
  IF pieces = <<>> THEN <<>>
  ELSE IF Len(pieces) = 1 THEN pieces[1]
  ELSE Rebuild(SubSeq(pieces, 1, Len(pieces) - 1), o)
         \o DropFirst(pieces[Len(pieces)], o)

\* Consecutive pieces share exactly o characters: the last o of one are the
\* first o of the next.
SharesOverlap(pieces, o) ==
  \A i \in 1..(Len(pieces) - 1) :
    /\ Len(pieces[i]) >= o
    /\ Len(pieces[i + 1]) >= o
    /\ LastChars(pieces[i], o) = FirstChars(pieces[i + 1], o)

\* The text of every window visited, in order.
WindowTexts == [k \in 1..Len(windows) |-> Slice(text, windows[k][1], windows[k][2])]

\* Some window begins or ends with whitespace.
BoundaryOnWhitespace ==
  \E k \in 1..Len(windows) : Strip(WindowTexts[k]) # WindowTexts[k]

\* C11 (as stated): for valid parameters the chunks share exactly overlap
\* characters with their neighbours, and the first chunk followed by every
\* later chunk minus its first overlap characters is the stripped source
\* text, also when a window boundary falls on whitespace.
C11_ChunksReconstructSource ==
  (cstate = "done" /\ ValidParameters) =>
    /\ SharesOverlap(chunks, overlap)
    /\ Rebuild(chunks, overlap) = text

\* C11 (amended): for valid parameters the windows cut from the stripped
\* source start at its beginning, end at its end, share exactly overlap
\* characters with their neighbours and rebuild the stripped source; the
\* chunks are the windows with surrounding whitespace removed, whitespace-only
\* windows left out, so the chunks share the overlap and rebuild the source
\* when no window begins or ends with whitespace.
C11_WindowsReconstructSource ==
  (cstate = "done" /\ ValidParameters) =>
    /\ text = Strip(source)
    /\ (text # <<>>) =>
         /\ windows # <<>>
         /\ windows[1][1] = 0
         /\ windows[Len(windows)][2] = Len(text)
    /\ \A k \in 1..(Len(windows) - 1) :
         windows[k + 1][1] = windows[k][2] - overlap
    /\ SharesOverlap(WindowTexts, overlap)
    /\ Rebuild(WindowTexts, overlap) = text
    /\ chunks = SelectSeq([k \in 1..Len(windows) |-> Strip(WindowTexts[k])],
                          LAMBDA c : c # <<>>)
    /\ ~BoundaryOnWhitespace =>
         /\ SharesOverlap(chunks, overlap)
         /\ Rebuild(chunks, overlap) = text

\* A run with a positive overlap has ended after several windows, one of
\* which begins or ends with whitespace, and the chunks do not rebuild the
\* source.
C11_Witness ==
  /\ cstate = "done"
  /\ ValidParameters
  /\ overlap > 0
  /\ Len(windows) >= 2
  /\ BoundaryOnWhitespace
  /\ Rebuild(chunks, overlap) # text

\* C12: whenever max_chars <= 0, overlap < 0 or overlap >= max_chars the
\* call ends with ValueError and without a chunk, whatever the text, the
\* empty and the whitespace-only text included.
C12_InvalidArgumentsRejected ==
  (cstate # "idle" /\ (max_chars <= 0 \/ overlap < 0 \/ overlap >= max_chars)) =>
    /\ cstate = "error"
    /\ chunks = <<>>
    /\ windows = <<>>

\* A call with a negative overlap and a whitespace-only text has failed.
C12_Witness ==
  /\ cstate = "error"
  /\ max_chars > 0
  /\ overlap < 0
  /\ source # <<>>
  /\ \A i \in 1..Len(source) : source[i] \in Whitespace

\* The text as passed has no character that is not whitespace.
Blank(t) == \A i \in 1..Len(t) : t[i] \in Whitespace

\* C13: with valid parameters the result is empty exactly when the text
\* passed is empty or whitespace-only; a text with a non-whitespace
\* character yields at least one chunk.
C13_EmptyExactlyWhenBlank ==
  (cstate = "done" /\ ValidParameters) =>
    (chunks = <<>> <=> Blank(source))

\* A call on a text with whitespace around a non-whitespace character has
\* returned chunks.
C13_Witness ==
  /\ cstate = "done"
  /\ ValidParameters
  /\ chunks # <<>>
  /\ Len(source) = MaxTextLen
  /\ source[1] \in Whitespace
  /\ source[MaxTextLen] \in Whitespace

\* ceil(a / b) for a >= 0, b > 0
CeilDiv(a, b) == (a + b - 1) \div b

\* The number of chunks the contract gives for a text of n characters.
ExpectedChunks(n, m, o) == IF n <= m THEN 1 ELSE 1 + CeilDiv(n - m, m - o)

\* C14: with valid parameters window k (from 0) starts at
\* k * (max_chars - overlap) and the last window ends at the end of the text;
\* a stripped text of L characters is cut into one window when
\* L <= max_chars and 1 + ceil((L - max_chars) / (max_chars - overlap))
\* windows otherwise, which is the number of chunks when no window is
\* whitespace-only; 9000 characters with max_chars 4000 and overlap 200 give 3.
C14_ChunkCount ==
  /\ (cstate \in {"loop", "done"} /\ ValidParameters) =>
       \A k \in 1..Len(windows) :
         windows[k][1] = (k - 1) * (max_chars - overlap)
  /\ (cstate = "done" /\ ValidParameters /\ text # <<>>) =>
       /\ windows[Len(windows)][2] = Len(text)
       /\ Len(windows) = ExpectedChunks(Len(text), max_chars, overlap)
       /\ Len(windows) = WindowsFrom(0, Len(text), max_chars, overlap)
       /\ (\A k \in 1..Len(windows) : ~Blank(WindowTexts[k])) =>
            Len(chunks) = ExpectedChunks(Len(text), max_chars, overlap)
  /\ WindowsFrom(0, 9000, 4000, 200) = 3
  /\ ExpectedChunks(9000, 4000, 200) = 3

\* A text longer than max_chars, cut with a positive overlap, has given
\* three chunks.
C14_Witness ==
  /\ cstate = "done"
  /\ ValidParameters
  /\ overlap > 0
  /\ Len(text) > max_chars
  /\ Len(chunks) = 3
  /\ Len(chunks) = ExpectedChunks(Len(text), max_chars, overlap)

(***************************************************************************)
(* ClassMetadataStore: set, get, all, save, load, the construction of a     *)
(* new store on the same json_path, and what the holder of the dict that    *)
(* all() returned can do to it.                                             *)
(***************************************************************************)
Symbols == {"Foo", "__module__"}
Metas == {ClassMetadata("i1", "s1"), ClassMetadata("i2", "s2")}

\* What the store's operations leave alone.
nonStore == <<config, sessionVars, callVars, chunkVars, ifaceVars,
             analyzerVars, toolVars>>

Range(d) == {d[k] : k \in DOMAIN d}

\* del d[k]
Remove(d, k) == [x \in DOMAIN d \ {k} |-> d[x]]

\* d.get(k, default)
GetOr(d, k, default) == IF k \in DOMAIN d THEN d[k] ELSE default

\* The mapping file -> symbol -> ClassMetadata that the file-level dict r
\* holds, by value.
Content(o, i, r) ==
  IF r = 0 THEN EmptyDict ELSE [f \in DOMAIN o[r] |-> i[o[r][f]]]

StoreContent == Content(outer, inner, index)
ViewContent == Content(outer, inner, view)

\* The same mapping by (file, symbol) pair.
Flat(n) ==
  LET pairs == UNION {{<<f, s>> : s \in DOMAIN n[f]} : f \in DOMAIN n}
  IN  [p \in pairs |-> n[p[1]][p[2]]]

\* The symbol-level dicts some file-level dict in use still holds, and the
\* heaps with the dicts nobody holds forgotten.
LiveInner(o, ix, vw) == UNION {Range(o[r]) : r \in {ix, vw} \ {0}}

SettleOuter(o, ix, vw) ==
  [r \in OuterRefs |-> IF r \in {ix, vw} THEN o[r] ELSE EmptyDict]

SettleInner(o, i, ix, vw) ==
  [r \in InnerRefs |-> IF r \in LiveInner(o, ix, vw) THEN i[r] ELSE EmptyDict]

\* A plausible slip: set replaces the file's dict by one holding the new
\* entry alone.
BucketAfterSetAlone(b, s, m) == [x \in {s} |-> m]

\* self._index[file_path][class_name] = ClassMetadata(...)
BucketAfterSet(b, s, m) == SetItem(b, s, m)

\* The dicts after set(file_path, class_name, interface, summary): the
\* file's dict is made if the index has none, then the entry is assigned.
AfterSet(o, i, ix, f, s, m) ==
  LET known == f \in DOMAIN o[ix]
      ref == IF known THEN o[ix][f] ELSE <<"store", f>>
  IN  [outer |-> IF known THEN o ELSE [o EXCEPT ![ix] = SetItem(@, f, ref)],
       inner |-> [i EXCEPT ![ref] = BucketAfterSet(@, s, m)]]

\* set(file_path, class_name, interface, summary)
Set(f, s, m) ==
  /\ outer' = AfterSet(outer, inner, index, f, s, m).outer
  /\ inner' = AfterSet(outer, inner, index, f, s, m).inner
  /\ sop' = StoreOp("set", "ok", EmptyDict)
  /\ UNCHANGED <<index, view, disk, saved, nonStore>>

\* get(file_path, class_name): the entry, or None.
Get(f, s) ==
  /\ sop' = StoreOp("get", "ok",
                    IF f \in DOMAIN StoreContent /\ s \in DOMAIN StoreContent[f]
                    THEN [x \in {f} |-> [y \in {s} |-> StoreContent[f][s]]]
                    ELSE EmptyDict)
  /\ UNCHANGED <<index, outer, inner, view, disk, saved, nonStore>>

\* A plausible slip: all() returns the index itself.
AllAlias ==
  /\ view' = index
  /\ outer' = SettleOuter(outer, index, index)
  /\ inner' = SettleInner(outer', inner, index, index)
  /\ sop' = StoreOp("all", "ok", StoreContent)
  /\ UNCHANGED <<index, disk, saved, nonStore>>

\* all(): dict(self._index), a new file-level dict holding the same
\* symbol-level dicts.
All ==
  LET ref == CHOOSE r \in OuterRefs : r # index
  IN  /\ view' = ref
      /\ outer' = [outer EXCEPT ![ref] = outer[index]]
      /\ inner' = SettleInner(outer', inner, index, ref)
      /\ sop' = StoreOp("all", "ok", Content(outer', inner', ref))
      /\ UNCHANGED <<index, disk, saved, nonStore>>

\* A plausible slip: save leaves the summary out.
EntryToJsonNoSummary(m) == [k \in {"interface"} |-> m.interface]

\* {"interface": meta.interface, "summary": meta.summary}
EntryToJson(m) ==
  [k \in {"interface", "summary"} |->
     IF k = "interface" THEN m.interface ELSE m.summary]

\* A JSON value under a file key: an object with its members, or something
\* that is not an object.
JsonValue(type, mem) == [type |-> type, members |-> mem]

\* The document save writes.
Serialise(n) ==
  [f \in DOMAIN n |->
     JsonValue("object", [s \in DOMAIN n[f] |-> EntryToJson(n[f][s])])]

\* save()
Save ==
  /\ disk' = DiskFile("json", Serialise(StoreContent), "save")
  /\ saved' = Flat(StoreContent)
  /\ sop' = StoreOp("save", "ok", EmptyDict)
  /\ UNCHANGED <<index, outer, inner, view, nonStore>>

\* ClassMetadata(interface=data.get("interface", ""), summary=data.get("summary", ""))
EntryFromJson(d) ==
  ClassMetadata(GetOr(d, "interface", ""), GetOr(d, "summary", ""))

\* How reading and parsing the file ends.
ReadOutcome(dk) ==
  IF dk.kind = "absent" THEN "FileNotFoundError"
  ELSE IF dk.kind = "malformed" THEN "JSONDecodeError"
  ELSE IF \E f \in DOMAIN dk.doc : dk.doc[f].type # "object"
       THEN "AttributeError"
  ELSE "ok"

\* The index load builds from a document.
Parsed(doc) ==
  [f \in DOMAIN doc |->
     [s \in DOMAIN doc[f].members |-> EntryFromJson(doc[f].members[s])]]

\* self._index = index, for a newly built index n: a new file-level dict
\* holding new symbol-level dicts.  The holder of a dict that all() returned
\* earlier lets go of it.
Install(n) ==
  LET place == [f \in DOMAIN n |-> <<"store", f>>]
      filled == [r \in InnerRefs |->
                   IF r[1] = "store" /\ r[2] \in DOMAIN n THEN n[r[2]]
                   ELSE EmptyDict]
  IN  /\ index' = index
      /\ view' = 0
      /\ outer' = SettleOuter([outer EXCEPT ![index] = place], index, 0)
      /\ inner' = filled

\* A plausible slip: load empties the index before it reads the file.
KeepIndexCleared == Install(EmptyDict)

\* An exception leaves load before self._index is assigned.
KeepIndex == UNCHANGED <<index, outer, inner, view>>

\* load()
Load ==
  /\ IF ReadOutcome(disk) = "ok" THEN Install(Parsed(disk.doc)) ELSE KeepIndex
  /\ sop' = StoreOp("load", ReadOutcome(disk), EmptyDict)
  /\ UNCHANGED <<disk, saved, nonStore>>

\* ClassMetadataStore(json_path): a new store on the same path, used from
\* here on if its construction succeeds.
Construct ==
  LET outcome == IF disk.kind = "absent" THEN "ok" ELSE ReadOutcome(disk)
  IN  /\ IF outcome = "ok"
         THEN Install(IF disk.kind = "absent" THEN EmptyDict ELSE Parsed(disk.doc))
         ELSE KeepIndex
      /\ sop' = StoreOp("construct", outcome, EmptyDict)
      /\ UNCHANGED <<disk, saved, nonStore>>

\* Files that something other than save left at json_path: text that is
\* not JSON, a file key whose value is not an object, an entry without a
\* summary, a file key with no entry.
ExternalFiles ==
  { DiskFile("malformed", EmptyDict, "other"),
    DiskFile("json", [f \in {"a.py"} |-> JsonValue("array", EmptyDict)], "other"),
    DiskFile("json",
             [f \in {"a.py"} |->
                JsonValue("object",
                          [s \in {"Foo"} |-> [k \in {"interface"} |-> "i1"]])],
             "other"),
    DiskFile("json", [f \in {"a.py"} |-> JsonValue("object", EmptyDict)], "other") }

ExternalWrite(c) ==
  /\ disk # c
  /\ disk' = c
  /\ saved' = EmptyDict
  /\ UNCHANGED <<index, outer, inner, view, sop, nonStore>>

\* The holder of the returned dict assigns a new dict to a file key of it.
ViewSetFile(f, b) ==
  /\ view # 0
  /\ LET ref == <<"holder", f>>
     IN  /\ outer' = [outer EXCEPT ![view] = SetItem(@, f, ref)]
         /\ inner' = SettleInner(outer', [inner EXCEPT ![ref] = b], index, view)
  /\ sop' = StoreOp("view_file", "ok", EmptyDict)
  /\ UNCHANGED <<index, view, disk, saved, nonStore>>

\* ... deletes a file key of it.
ViewDelFile(f) ==
  /\ view # 0
  /\ f \in DOMAIN outer[view]
  /\ outer' = [outer EXCEPT ![view] = Remove(@, f)]
  /\ inner' = SettleInner(outer', inner, index, view)
  /\ sop' = StoreOp("view_file", "ok", EmptyDict)
  /\ UNCHANGED <<index, view, disk, saved, nonStore>>

\* ... adds or replaces a symbol entry under a file key of it.
ViewSetSymbol(f, s, m) ==
  /\ view # 0
  /\ f \in DOMAIN outer[view]
  /\ inner' = [inner EXCEPT ![outer[view][f]] = SetItem(@, s, m)]
  /\ sop' = StoreOp("view_symbol", "ok", EmptyDict)
  /\ UNCHANGED <<index, outer, view, disk, saved, nonStore>>

\* ... deletes a symbol entry under a file key of it.
ViewDelSymbol(f, s) ==
  /\ view # 0
  /\ f \in DOMAIN outer[view]
  /\ s \in DOMAIN inner[outer[view][f]]
  /\ inner' = [inner EXCEPT ![outer[view][f]] = Remove(@, s)]
  /\ sop' = StoreOp("view_symbol", "ok", EmptyDict)
  /\ UNCHANGED <<index, outer, view, disk, saved, nonStore>>

ViewFileChange ==
  \/ \E f \in Files, b \in {EmptyDict} \cup {[s \in {"Foo"} |-> m] : m \in Metas} :
       ViewSetFile(f, b)
  \/ \E f \in Files : ViewDelFile(f)

ViewSymbolChange ==
  \/ \E f \in Files, s \in Symbols, m \in Metas : ViewSetSymbol(f, s, m)
  \/ \E f \in Files, s \in Symbols : ViewDelSymbol(f, s)

\* The store and its file.
NextStore ==
  \/ \E f \in Files, s \in Symbols, m \in Metas : Set(f, s, m)
  \/ All
  \/ Save
  \/ Load
  \/ Construct
  \/ \E c \in ExternalFiles : ExternalWrite(c)

SpecStore == Init /\ [][NextStore]_vars

\* The store and the holder of what all() returned.
NextView ==
  \/ \E f \in Files, s \in Symbols, m \in Metas : Set(f, s, m)
  \/ \E f \in Files, s \in Symbols : Get(f, s)
  \/ All
  \/ ViewFileChange
  \/ ViewSymbolChange

SpecView == Init /\ [][NextView]_vars

(***************************************************************************)
(* Properties of the store (C15, C16, C18 under SpecStore, C17 under        *)
(* SpecView).                                                               *)
(***************************************************************************)

\* C15: when save has written the file, a store constructed on the same
\* path, or a load, holds exactly the (file, symbol) -> value mapping the
\* store held at that save: nothing lost, added or altered.
C15_SaveLoadRoundTrip ==
  (sop.op \in {"load", "construct"} /\ sop.outcome = "ok" /\ disk.by = "save") =>
    Flat(StoreContent) = saved

\* A new store was constructed on a file that save wrote with an entry for
\* every (file, symbol) pair, not all of one value.
C15_Witness ==
  /\ sop = StoreOp("construct", "ok", EmptyDict)
  /\ disk.by = "save"
  /\ DOMAIN saved = Files \X Symbols
  /\ Range(saved) = Metas
  /\ Flat(StoreContent) = saved

\* C16: a set makes the value it is given the one entry of its (file,
\* symbol) pair and changes the entry of no other pair, so that after any
\* sequence of sets each pair holds the value of its most recent set; save
\* and all() change nothing, and all() returns exactly these values.
C16_LatestSetPerPair ==
  [][ /\ \A f \in Files, s \in Symbols, m \in Metas :
           (sop'.op = "set" /\ Set(f, s, m)) =>
             Flat(StoreContent)' = SetItem(Flat(StoreContent), <<f, s>>, m)
      /\ (sop'.op = "save" /\ Save) => StoreContent' = StoreContent
      /\ (sop'.op = "all" /\ All) =>
                /\ StoreContent' = StoreContent
                /\ sop'.result = StoreContent
                /\ ViewContent' = StoreContent ]_vars

\* all() has returned an entry for every (file, symbol) pair, not all of one
\* value.
C16_Witness ==
  /\ sop.op = "all"
  /\ sop.result = StoreContent
  /\ DOMAIN Flat(StoreContent) = Files \X Symbols
  /\ Range(Flat(StoreContent)) = Metas

\* The returned dict and the index hold the same dict under file key f.
Shared(f) ==
  /\ view # 0
  /\ f \in DOMAIN outer[view]
  /\ f \in DOMAIN outer[index]
  /\ outer[view][f] = outer[index][f]

\* C17 (as stated): no change made through the dict all() returned, to its
\* file keys or to the symbol entries under one of them, alters what the
\* store holds.
C17_ViewIndependent ==
  [][(sop'.op \in {"view_file", "view_symbol"}
        /\ (ViewFileChange \/ ViewSymbolChange)) =>
       StoreContent' = StoreContent]_vars

\* C17 (amended): all() returns a shallow copy.  Adding, replacing or
\* removing a file key of the returned dict alters nothing the store holds;
\* the symbol-level dicts under the file keys it returned are the store's
\* own, so adding, replacing or removing a symbol entry under such a key
\* alters the store's entry likewise, and under a key the holder put there
\* alters nothing.
C17_ViewShallowCopy ==
  [][ /\ (sop'.op = "view_file" /\ ViewFileChange) =>
           StoreContent' = StoreContent
      /\ \A f \in Files, s \in Symbols, m \in Metas :
           (sop'.op = "view_symbol" /\ ViewSetSymbol(f, s, m)) =>
             IF Shared(f)
             THEN StoreContent' = [StoreContent EXCEPT ![f] = SetItem(@, s, m)]
             ELSE StoreContent' = StoreContent
      /\ \A f \in Files, s \in Symbols :
           (sop'.op = "view_symbol" /\ ViewDelSymbol(f, s)) =>
             IF Shared(f)
             THEN StoreContent' = [StoreContent EXCEPT ![f] = Remove(@, s)]
             ELSE StoreContent' = StoreContent ]_vars

\* The holder has put a dict of its own under a file key for which the store
\* holds other entries, and still holds the store's dict under another key.
C17_Witness ==
  /\ sop.op = "view_file"
  /\ \E f \in Files, g \in Files :
       /\ f \in DOMAIN outer[view]
       /\ outer[view][f] = <<"holder", f>>
       /\ f \in DOMAIN StoreContent
       /\ StoreContent[f] # EmptyDict
       /\ ViewContent[f] # StoreContent[f]
       /\ Shared(g)

\* C18: load on a file that is not JSON ends with JSONDecodeError and the
\* index as it was; a load that fails in any way leaves the index as it was,
\* and one that succeeds leaves the whole index the file describes.
C18_FailedLoadKeepsIndex ==
  [][(sop'.op = "load" /\ Load) =>
       /\ disk.kind = "malformed" =>
            /\ sop'.outcome = "JSONDecodeError"
            /\ StoreContent' = StoreContent
       /\ sop'.outcome # "ok" => StoreContent' = StoreContent
       /\ sop'.outcome = "ok" => StoreContent' = Parsed(disk.doc)]_vars

\* A load has failed on text that is not JSON while the index held entries.
C18_Witness ==
  /\ sop = StoreOp("load", "JSONDecodeError", EmptyDict)
  /\ disk.kind = "malformed"
  /\ DOMAIN Flat(StoreContent) = Files \X Symbols

(***************************************************************************)
(* _get_python_class_interface, for a class found at the top level of code  *)
(* that parses.  Init draws the class; the action renders its interface.    *)
(* Names and docstrings are character sequences; a line of the interface is *)
(* what it is (class header, class docstring, method header, method         *)
(* docstring, the "..." placeholder), the method it belongs to and, for a   *)
(* docstring, its text.                                                     *)
(***************************************************************************)
DunderInit == <<"_", "_", "i", "n", "i", "t", "_", "_">>
MethodNames == {DunderInit, <<"_", "_", "h">>, <<"_", "p">>, <<"b", "a", "r">>}
Docstrings == {None, Some(<<>>), Some(<<"d">>)}

\* A statement of a class body: a def, an async def, or anything else.
Member(kind, name, doc) == [kind |-> kind, name |-> name, doc |-> doc]

Members ==
  {Member("def", n, d) : n \in MethodNames, d \in Docstrings}
    \cup {Member("async def", <<"b", "a", "r">>, None), Member("other", <<>>, None)}

RECURSIVE BodiesOfLen(_)
BodiesOfLen(n) ==
  IF n = 0 THEN {<<>>}
  ELSE {Append(b, m) : b \in BodiesOfLen(n - 1), m \in Members}

InitInterface ==
  /\ class_doc \in {None, Some(<<"d">>)}
  /\ class_body \in UNION {BodiesOfLen(n) : n \in 0..MaxMembers}
  /\ iface = <<>>
  /\ config = DefaultConfig
  /\ InitSession
  /\ InitCall
  /\ InitChunk
  /\ InitStore
  /\ InitAnalyzer
  /\ InitTool

\* What the extraction leaves alone.
nonIface == <<config, sessionVars, callVars, chunkVars, storeVars,
             analyzerVars, toolVars>>

Line(what, name, t) == [what |-> what, name |-> name, text |-> t]

\* name.startswith(prefix)
StartsWith(name, prefix) ==
  Len(name) >= Len(prefix) /\ SubSeq(name, 1, Len(prefix)) = prefix

\* isinstance(node, (ast.FunctionDef, ast.AsyncFunctionDef))
IsMethod(node) == node.kind \in {"def", "async def"}

\* A plausible slip: the constructor is skipped with the other
\* double-underscore names.
SkippedWithInit(name) == StartsWith(name, <<"_", "_">>)

\* node.name.startswith("__") and node.name not in ("__init__",)
Skipped(name) == StartsWith(name, <<"_", "_">>) /\ name \notin {DunderInit}

\* The lines of one method: header, docstring if there is one, placeholder.
MethodLines(node) ==
  <<Line("header", node.name, <<>>)>>
    \o (IF Truthy(node.doc)
        THEN <<Line("doc", node.name, TheVal(node.doc))>> ELSE <<>>)
    \o <<Line("placeholder", node.name, <<>>)>>

RECURSIVE BodyLines(_)
BodyLines(body) ==
  IF body = <<>> THEN <<>>
  ELSE (IF IsMethod(Head(body)) /\ ~Skipped(Head(body).name)
        THEN MethodLines(Head(body)) ELSE <<>>)
         \o BodyLines(Tail(body))

ClassInterface(cdoc, body) ==
  <<Line("class_header", <<>>, <<>>)>>
    \o (IF Truthy(cdoc) THEN <<Line("class_doc", <<>>, TheVal(cdoc))>> ELSE <<>>)
    \o BodyLines(body)

GetPythonClassInterface ==
  /\ iface = <<>>
  /\ iface' = ClassInterface(class_doc, class_body)
  /\ UNCHANGED <<class_doc, class_body, nonIface>>

NextInterface == GetPythonClassInterface

SpecInterface == InitInterface /\ [][NextInterface]_vars

\* The methods the contract includes: those defined directly in the class
\* whose name does not start with a double underscore or is __init__.
IncludedMethods ==
  SelectSeq(class_body,
            LAMBDA n : /\ n.kind \in {"def", "async def"}
                       /\ \/ ~(Len(n.name) >= 2 /\ n.name[1] = "_" /\ n.name[2] = "_")
                          \/ n.name = DunderInit)

\* Where the method headers are in the interface.
RECURSIVE HeaderPositions(_)
HeaderPositions(n) ==
  IF n = 0 THEN <<>>
  ELSE IF iface[n].what = "header"
       THEN Append(HeaderPositions(n - 1), n) ELSE HeaderPositions(n - 1)

\* C19: the interface has one header for every method the contract
\* includes, in the order of the class body, and none for any other
\* statement; each header is followed by the method's docstring if it has a
\* non-empty one and then by the placeholder, and nothing else follows the
\* class header and the class docstring.
C19_InterfaceMethods ==
  (iface # <<>>) =>
    LET at == HeaderPositions(Len(iface))
        docOf(k) == IncludedMethods[k].doc
        hasDoc(k) == docOf(k) # None /\ TheVal(docOf(k)) # <<>>
        size(k) == IF hasDoc(k) THEN 3 ELSE 2
        first == IF class_doc # None THEN 3 ELSE 2
    IN  /\ iface[1].what = "class_header"
        /\ Len(at) = Len(IncludedMethods)
        /\ \A k \in 1..Len(at) :
             /\ iface[at[k]].name = IncludedMethods[k].name
             /\ at[k] = IF k = 1 THEN first ELSE at[k - 1] + size(k - 1)
             /\ hasDoc(k) =>
                  /\ iface[at[k] + 1] = Line("doc", IncludedMethods[k].name, TheVal(docOf(k)))
                  /\ iface[at[k] + 2] = Line("placeholder", IncludedMethods[k].name, <<>>)
             /\ ~hasDoc(k) =>
                  iface[at[k] + 1] = Line("placeholder", IncludedMethods[k].name, <<>>)
        /\ Len(iface) = IF at = <<>> THEN first - 1
                        ELSE at[Len(at)] + size(Len(at)) - 1

\* The interface of a class with a double-underscore helper, a public method
\* with a docstring and the constructor has been rendered.
C19_Witness ==
  /\ iface # <<>>
  /\ \E i, j, k \in 1..Len(class_body) :
       /\ class_body[i] = Member("def", <<"_", "_", "h">>, Some(<<"d">>))
       /\ class_body[j] = Member("def", <<"b", "a", "r">>, Some(<<"d">>))
       /\ class_body[k].name = DunderInit
  /\ Len(HeaderPositions(Len(iface))) = 2

(***************************************************************************)
(* The patch command and the code-edit tool.  A run of the tool is split    *)
(* where something else can act: at the prompt and around each git command. *)
(* apply_diff_with_git is also called on its own, as the library function   *)
(* it is.                                                                   *)
(***************************************************************************)
\* What the tool's steps leave alone.
nonTool == <<config, sessionVars, callVars, chunkVars, storeVars, ifaceVars,
            analyzerVars>>

\* The diffs the model can propose: one that applies to the file as the tool
\* read it, one that applies to nothing.
Diffs == {"good", "bad"}

ToolModes == {"refactor", "add", "docstrings"}

\* What the bytes git printed are: text in UTF-8, or not.
GitOutputs == {"utf8", "other"}

\* Exit status of git apply, with or without --check.
ReturnCode(d, tg) == IF d = "good" /\ tg = "base" THEN 0 ELSE 1

GitCall(by, args, d, cwd, rc) ==
  [by |-> by, args |-> args, input |-> d, cwd |-> cwd, returncode |-> rc]

\* apply_diff_with_git(diff_text, repo_root): the exception it ends with or
\* "ok", the target file afterwards, and the git command it ran.
\* subprocess.run raises FileNotFoundError when there is no git; the message
\* of the RuntimeError is built by decoding git's output as UTF-8.
ApplyDiffWithGit(installed, d, tg, out) ==
  IF ~installed
  THEN [outcome |-> "FileNotFoundError", target |-> tg, calls |-> <<>>]
  ELSE LET rc == ReturnCode(d, tg)
           made == <<GitCall("apply_diff_with_git", "apply -", d, "workspace_root", rc)>>
       IN  IF rc = 0
           THEN [outcome |-> "ok", target |-> "patched", calls |-> made]
           ELSE [outcome |-> IF out = "utf8" THEN "RuntimeError"
                             ELSE "UnicodeDecodeError",
                 target |-> tg, calls |-> made]

InitApplyTool ==
  /\ git_installed \in BOOLEAN
  /\ target = "base"
  /\ tool = NoRun
  /\ git_calls = <<>>
  /\ config = DefaultConfig
  /\ InitSession
  /\ InitCall
  /\ InitChunk
  /\ InitStore
  /\ InitIface
  /\ InitAnalyzer

\* apply_diff_with_git called on its own.
CallApplyDiff(d, out) ==
  /\ tool.pc = "idle"
  /\ LET r == ApplyDiffWithGit(git_installed, d, target, out)
     IN  /\ tool' = ToolRun("ended", "direct", FALSE, FALSE, d, "none", r.outcome, FALSE)
         /\ target' = r.target
         /\ git_calls' = git_calls \o r.calls
  /\ UNCHANGED <<git_installed, nonTool>>

\* main up to the proposed diff: the checks of the arguments and of the
\* backend end the run with SystemExit; otherwise the model proposes a diff.
MainPropose(ready, mode, auto, d) ==
  /\ tool.pc = "idle"
  /\ tool' = IF ready
             THEN ToolRun("proposed", mode, auto, FALSE, d, "none", "none", FALSE)
             ELSE ToolRun("ended", mode, auto, FALSE, "none", "none", "SystemExit", FALSE)
  /\ UNCHANGED <<git_installed, target, git_calls, nonTool>>

\* do_apply: --auto-apply, or the answer to the prompt.
MainConfirm(answer) ==
  /\ tool.pc = "proposed"
  /\ LET do_apply == tool.auto_apply \/ answer
     IN  tool' = IF do_apply
                 THEN [tool EXCEPT !.pc = "checking", !.do_apply = TRUE]
                 ELSE [tool EXCEPT !.pc = "ended", !.outcome = "returned"]
  /\ UNCHANGED <<git_installed, target, git_calls, nonTool>>

\* A plausible slip: the result of the check is printed and not acted on.
ProceedWhatever(rc) == TRUE

\* if check.returncode != 0: ... return
Proceed(rc) == rc = 0

\* git apply --check - on the diff, in the workspace.
MainCheck ==
  /\ tool.pc = "checking"
  /\ IF ~git_installed
     THEN /\ tool' = [tool EXCEPT !.pc = "ended", !.outcome = "SystemExit"]
          /\ UNCHANGED git_calls
     ELSE LET rc == ReturnCode(tool.diff, target)
          IN  /\ git_calls' = Append(git_calls,
                                     GitCall("main", "apply --check -", tool.diff,
                                             "workspace_root", rc))
              /\ tool' = IF Proceed(rc)
                         THEN [tool EXCEPT !.pc = "applying",
                                           !.check = IF rc = 0 THEN "ok" ELSE "failed"]
                         ELSE [tool EXCEPT !.pc = "ended", !.check = "failed",
                                           !.outcome = "returned"]
  /\ UNCHANGED <<git_installed, target, nonTool>>

\* A plausible slip: a failed apply sends the tool back to the check.
AfterApplyRetrying(outcome) == IF outcome = "ok" THEN "ended" ELSE "checking"

\* The exception of apply_diff_with_git leaves main; nothing is retried.
AfterApply(outcome) == "ended"

\* apply_diff_with_git(diff_text, repo_root=workspace_root)
MainApply(out) ==
  /\ tool.pc = "applying"
  /\ LET r == ApplyDiffWithGit(git_installed, tool.diff, target, out)
     IN  /\ tool' = [tool EXCEPT !.pc = AfterApply(r.outcome), !.outcome = r.outcome]
         /\ target' = r.target
         /\ git_calls' = git_calls \o r.calls
  /\ UNCHANGED <<git_installed, nonTool>>

\* Another actor edits the target file while the tool runs.
OtherActorEdits ==
  /\ tool.pc \in {"proposed", "checking", "applying"}
  /\ target = "base"
  /\ target' = "changed"
  /\ tool' = [tool EXCEPT !.raced = (tool.pc = "applying")]
  /\ UNCHANGED <<git_installed, git_calls, nonTool>>

NextTool ==
  \/ \E d \in Diffs, out \in GitOutputs : CallApplyDiff(d, out)
  \/ \E ready \in BOOLEAN, mode \in ToolModes, auto \in BOOLEAN, d \in Diffs :
       MainPropose(ready, mode, auto, d)
  \/ \E answer \in BOOLEAN : MainConfirm(answer)
  \/ MainCheck
  \/ \E out \in GitOutputs : MainApply(out)
  \/ OtherActorEdits

SpecTool == InitApplyTool /\ [][NextTool]_vars

\* C23: apply_diff_with_git ends with RuntimeError both when git apply exits
\* with a nonzero status and when git is not installed, and returns normally
\* only when git apply exited with status 0.
C23_ApplyFailsWithRuntimeError ==
  (tool.pc = "ended" /\ tool.mode = "direct") =>
    LET ran == git_calls # <<>>
        rc == git_calls[Len(git_calls)].returncode
    IN  /\ tool.outcome \in {"ok", "RuntimeError"}
        /\ tool.outcome = "ok" <=> (ran /\ rc = 0)
        /\ ~git_installed => tool.outcome = "RuntimeError"

\* The git commands of the run, by who ran them.
ChecksRun == {k \in 1..Len(git_calls) : git_calls[k].args = "apply --check -"}

AppliesRun == {k \in 1..Len(git_calls) : git_calls[k].args = "apply -"}

\* C24: the tool runs git apply only after the user confirmed or auto-apply
\* was set, and right after a git apply --check of the same diff in the same
\* directory that exited with status 0; a run that ends at a declined
\* prompt, a failed check or a missing git has run no git apply and has
\* left the target file as it was.
C24_ApplyOnlyAfterConfirmedCheck ==
  (tool.mode \in ToolModes) =>
    /\ \A k \in AppliesRun :
         /\ tool.do_apply
         /\ k > 1
         /\ git_calls[k - 1] =
              GitCall("main", "apply --check -", git_calls[k].input,
                      git_calls[k].cwd, 0)
    /\ (tool.pc = "applying" \/ AppliesRun # {}) => tool.check = "ok"
    /\ (tool.pc = "ended" /\ tool.outcome \in {"returned", "SystemExit"}) =>
         /\ AppliesRun = {}
         /\ target # "patched"
    /\ (tool.pc = "ended" /\ ~tool.do_apply) => git_calls = <<>>
    /\ target = "patched" => AppliesRun # {}

\* A run has ended with the diff applied after the user confirmed; the
\* commands run are the check and the apply.
C24_Witness ==
  /\ tool.pc = "ended"
  /\ tool.mode \in ToolModes
  /\ ~tool.auto_apply
  /\ tool.do_apply
  /\ tool.outcome = "ok"
  /\ target = "patched"
  /\ Len(git_calls) = 2

\* C30: the check and the apply are two git commands with nothing that
\* holds the file between them: when another actor edits the target file
\* after a check that succeeded, the apply fails and its error ends the
\* run, with the file as the other actor left it; the tool has run one
\* check and one apply, no second check and no second apply.
C30_CheckThenApplyNotAtomic ==
  (tool.mode \in ToolModes) =>
    /\ Cardinality(ChecksRun) <= 1
    /\ Cardinality(AppliesRun) <= 1
    /\ (tool.pc = "ended" /\ tool.raced) =>
         /\ tool.check = "ok"
         /\ tool.outcome \in {"RuntimeError", "UnicodeDecodeError"}
         /\ target = "changed"
         /\ Len(git_calls) = 2
         /\ git_calls[1].returncode = 0
         /\ git_calls[2].returncode # 0
    /\ (tool.pc = "ended" /\ tool.check = "ok" /\ tool.outcome # "ok") => tool.raced

\* A run has ended with RuntimeError from the apply after a check that
\* succeeded, the file having been edited in between.
C30_Witness ==
  /\ tool.pc = "ended"
  /\ tool.mode \in ToolModes
  /\ tool.check = "ok"
  /\ tool.raced
  /\ tool.outcome = "RuntimeError"
  /\ Len(git_calls) = 2

(***************************************************************************)
(* WorkspaceAnalyzer.analyze.  AnalyzeStart is the call up to the loop,     *)
(* AnalyzeFile one pass through it (_analyze_file_into_tree and the except  *)
(* around it), AnalyzeFinish the writing of the folder documents and the    *)
(* save of the flat store.                                                  *)
(***************************************************************************)
MODULE_KEY == "__module__"
FUNCTIONS_KEY == "__functions__"

\* f"{FUNCTION_STORE_PREFIX}{fn_name}"
FuncStoreKey(fn) == CASE fn = "helper" -> "func:helper"

\* The methods CodeService defines.
CodeServiceMethods ==
  {"_build_output_instruction", "write_unit_tests", "describe_class",
   "add_functionality_to_class", "refactor_class", "generate_docstrings",
   "suggest_improvements", "explain_method", "generate_usage_examples",
   "review_diff_for_merge_request", "get_class_interface",
   "_get_python_class_interface", "_extract_node_header"}

\* The *.py files there can be under root_dir, and what can be in one.
WorkspacePaths ==
  {<<"a.py">>, <<"pkg", "b.py">>, <<".venv", "c.py">>, <<"pkg", "sub", "d.py">>}

\* The roots analyze can be given: a directory with no skipped name on its
\* path, and one below a directory called venv.
RootDirs == {<<"proj">>, <<"venv", "proj">>}

SourceFile(readable, parses, classes, functions) ==
  [readable |-> readable, parses |-> parses, classes |-> classes,
   functions |-> functions]

SourceFiles ==
  { SourceFile(FALSE, FALSE, <<>>, <<>>),
    SourceFile(TRUE, FALSE, <<"Foo">>, <<>>),
    SourceFile(TRUE, TRUE, <<>>, <<>>),
    SourceFile(TRUE, TRUE, <<"Foo">>, <<>>),
    SourceFile(TRUE, TRUE, <<"Foo">>, <<"helper">>) }

Workspaces ==
  UNION {[ps -> SourceFiles] : ps \in SUBSET WorkspacePaths}

\* The flat index file an earlier run left at the output path, if any.
PriorIndex == [f \in {"a.py"} |-> [c \in {"Foo"} |-> ClassMetadata("i2", "s2")]]

PriorFiles == {NoFile, DiskFile("json", Serialise(PriorIndex), "save")}

\* A plausible slip: the store starts empty whatever is on disk.
StoreOnIgnoringFile(dk) ==
  /\ index = 1
  /\ outer = [r \in OuterRefs |-> EmptyDict]
  /\ inner = [r \in InnerRefs |-> EmptyDict]
  /\ view = 0
  /\ disk = dk
  /\ sop = StoreOp("construct", "ok", EmptyDict)
  /\ saved = IF dk.kind = "absent" THEN EmptyDict ELSE Flat(Parsed(dk.doc))

\* ClassMetadataStore(json_path=output_path): the store loads the file at
\* its path if there is one.
StoreOn(dk) ==
  LET n == IF dk.kind = "absent" THEN EmptyDict ELSE Parsed(dk.doc)
  IN  /\ index = 1
      /\ outer = [r \in OuterRefs |->
                    IF r = 1 THEN [f \in DOMAIN n |-> <<"store", f>>] ELSE EmptyDict]
      /\ inner = [r \in InnerRefs |->
                    IF r[1] = "store" /\ r[2] \in DOMAIN n THEN n[r[2]]
                    ELSE EmptyDict]
      /\ view = 0
      /\ disk = dk
      /\ sop = StoreOp("construct", "ok", EmptyDict)
      /\ saved = Flat(n)

InitAnalyze ==
  /\ workspace \in Workspaces
  /\ root_dir \in RootDirs
  /\ backend_up \in BOOLEAN
  /\ astate = "idle"
  /\ pending = {}
  /\ tree = EmptyDict
  /\ folder_docs = EmptyDict
  /\ alog = EmptyDict
  /\ config = DefaultConfig
  /\ InitSession
  /\ InitCall
  /\ InitChunk
  /\ \E dk \in PriorFiles : StoreOn(dk)
  /\ InitIface
  /\ InitTool

\* What analyze leaves alone.
nonAnalyzer == <<config, sessionVars, callVars, chunkVars, ifaceVars, toolVars>>

\* str(relative_path), relative_path.name, and str(relative_path.parent)
\* with "." for the root.
PathStr(p) ==
  CASE p = <<"a.py">> -> "a.py"
    [] p = <<"pkg", "b.py">> -> "pkg/b.py"
    [] p = <<".venv", "c.py">> -> ".venv/c.py"
    [] p = <<"pkg", "sub", "d.py">> -> "pkg/sub/d.py"

FileName(p) == p[Len(p)]

\* str(Path(*parts)) and Path(rel_dir).parts for the folders there are.
JoinParts(parts) ==
  CASE parts = <<>> -> "."
    [] Len(parts) = 1 -> parts[1]
    [] parts = <<"pkg", "sub">> -> "pkg/sub"

FolderParts(d) ==
  CASE d = "." -> <<>>
    [] d = "pkg/sub" -> <<"pkg", "sub">>
    [] OTHER -> <<d>>

DirStr(p) == JoinParts(SubSeq(p, 1, Len(p) - 1))

\* _iter_python_files: every *.py file with no part of its path among the
\* skipped directory names.  path.parts are the parts of root_dir followed
\* by those below it.
SkippedDirs == {".venv", "venv", "__pycache__"}

\* any(part in {...} for part in path.parts)
SkipsPath(parts) == \E k \in 1..Len(parts) : parts[k] \in SkippedDirs

IterPythonFiles(ws) == {p \in DOMAIN ws : ~SkipsPath(root_dir \o p)}

\* _extract_top_level_symbols: nothing for code that does not parse.
ExtractTopLevelSymbols(file) ==
  IF file.parses
  THEN [classes |-> file.classes, functions |-> file.functions]
  ELSE [classes |-> <<>>, functions |-> <<>>]

\* One symbol to index: its kind, its name in the folder tree, its key in the
\* flat store, and the two CodeService methods called for it.
Step(kind, name, key, calls) ==
  [kind |-> kind, name |-> name, key |-> key, calls |-> calls]

\* The symbols of a file in the order _analyze_file_into_tree takes them:
\* the module, the classes, the functions.
Steps(file) ==
  LET syms == ExtractTopLevelSymbols(file)
  IN  <<Step("module", MODULE_KEY, MODULE_KEY,
             <<"get_module_interface", "describe_module">>)>>
        \o [k \in 1..Len(syms.classes) |->
              Step("class", syms.classes[k], syms.classes[k],
                   <<"get_class_interface", "describe_class">>)]
        \o [k \in 1..Len(syms.functions) |->
              Step("function", syms.functions[k], FuncStoreKey(syms.functions[k]),
                   <<"get_function_interface", "describe_function">>)]

\* How the two calls for a symbol end: a method CodeService does not define
\* raises AttributeError; the describe_* call asks the backend and raises
\* RuntimeError when it does not answer.
StepOutcome(step, up) ==
  IF step.calls[1] \notin CodeServiceMethods THEN "AttributeError"
  ELSE IF step.calls[2] \notin CodeServiceMethods THEN "AttributeError"
  ELSE IF ~up THEN "RuntimeError"
  ELSE "ok"

\* The steps done before the first one that raises.
RECURSIVE Completed(_, _)
Completed(steps, up) ==
  IF steps = <<>> \/ StepOutcome(Head(steps), up) # "ok" THEN <<>>
  ELSE <<Head(steps)>> \o Completed(Tail(steps), up)

FileOutcome(steps, up) ==
  IF Len(Completed(steps, up)) = Len(steps) THEN "ok"
  ELSE StepOutcome(steps[Len(Completed(steps, up)) + 1], up)

\* An entry of the folder tree: {"interface": ..., "summary": ...}, or the
\* bucket of the functions.
TreeEntry(i, sm, fns) == [interface |-> i, summary |-> sm, functions |-> fns]

SymbolEntry == TreeEntry("i1", "s1", EmptyDict)

\* node.files[file_key] after the steps done: an entry per module or class
\* step, and, once the classes are through and the file has functions, the
\* functions bucket with an entry per function step.
FileEntries(steps, done) ==
  LET tops == {k \in 1..Len(done) : done[k].kind # "function"}
      fns == {k \in 1..Len(done) : done[k].kind = "function"}
      allTops == {k \in 1..Len(steps) : steps[k].kind # "function"}
      hasFns == \E k \in 1..Len(steps) : steps[k].kind = "function"
      top == [n \in {done[k].name : k \in tops} |-> SymbolEntry]
      bucket == [n \in {done[k].name : k \in fns} |-> SymbolEntry]
  IN  IF hasFns /\ Cardinality(tops) = Cardinality(allTops)
      THEN Update(top, [n \in {FUNCTIONS_KEY} |-> TreeEntry("", "", bucket)])
      ELSE top

\* The flat store after a set for every step done.
RECURSIVE StoreAfter(_, _, _, _)
StoreAfter(done, f, o, i) ==
  IF done = <<>> THEN [outer |-> o, inner |-> i]
  ELSE LET st == AfterSet(o, i, index, f, Head(done).key,
                          ClassMetadata("i1", "s1"))
       IN  StoreAfter(Tail(done), f, st.outer, st.inner)

\* _get_or_create_folder_node, then node.files.setdefault(file_key, {}) and
\* the entries of the steps done.
\* A plausible slip: only the file's own folder gets a node.
NodesOnPathLeafOnly(dir) == {dir}

\* The nodes _get_or_create_folder_node walks through: one per leading part
\* of rel_dir.
NodesOnPath(dir) ==
  {JoinParts(SubSeq(FolderParts(dir), 1, k)) : k \in 1..Len(FolderParts(dir))}

TreeWith(t, dir, name, entries) ==
  LET made == [d \in NodesOnPath(dir) \ DOMAIN t |-> EmptyDict]
      grown == Update(t, made)
      files == IF dir \in DOMAIN grown THEN grown[dir] ELSE EmptyDict
  IN  Update(grown, [d \in {dir} |-> SetItem(files, name, entries)])

\* A plausible slip: an exception other than a failed read ends the run.
AfterFailedFileAborting(outcome) ==
  IF outcome = "UnicodeDecodeError" THEN "files" ELSE "aborted"

\* except Exception: the failure is logged and the loop goes on.
AfterFailedFile(outcome) == "files"

AnalyzeStart ==
  /\ astate = "idle"
  /\ astate' = "files"
  /\ tree' = [d \in {"."} |-> EmptyDict]
  /\ pending' = IterPythonFiles(workspace)
  /\ alog' = EmptyDict
  /\ UNCHANGED <<workspace, backend_up, root_dir, folder_docs, storeVars,
                 nonAnalyzer>>

AnalyzeFile(p) ==
  /\ astate = "files"
  /\ p \in pending
  /\ pending' = pending \ {p}
  /\ IF ~workspace[p].readable
     THEN /\ alog' = SetItem(alog, PathStr(p), "UnicodeDecodeError")
          /\ astate' = AfterFailedFile("UnicodeDecodeError")
          /\ UNCHANGED <<tree, outer, inner, sop>>
     ELSE LET steps == Steps(workspace[p])
              done == Completed(steps, backend_up)
              st == StoreAfter(done, PathStr(p), outer, inner)
          IN  /\ tree' = TreeWith(tree, DirStr(p), FileName(p),
                                  FileEntries(steps, done))
              /\ outer' = st.outer
              /\ inner' = st.inner
              /\ sop' = IF done = <<>> THEN sop ELSE StoreOp("set", "ok", EmptyDict)
              /\ alog' = SetItem(alog, PathStr(p), FileOutcome(steps, backend_up))
              /\ astate' = IF FileOutcome(steps, backend_up) = "ok" THEN "files"
                           ELSE AfterFailedFile(FileOutcome(steps, backend_up))
  /\ UNCHANGED <<workspace, backend_up, root_dir, folder_docs, index, view, disk,
                 saved, nonAnalyzer>>

\* to_dict(node): the folder's path and files, with the documents of its
\* subfolders inside.
SubfoldersOf(t, d) ==
  {c \in DOMAIN t \ {"."} :
     /\ Len(FolderParts(c)) = Len(FolderParts(d)) + 1
     /\ SubSeq(FolderParts(c), 1, Len(FolderParts(d))) = FolderParts(d)}

RECURSIVE FolderDoc(_, _)
FolderDoc(t, d) ==
  [path |-> d, files |-> t[d],
   subfolders |-> [n \in {FileName(FolderParts(c)) : c \in SubfoldersOf(t, d)} |->
                     FolderDoc(t, JoinParts(FolderParts(d) \o <<n>>))]]

AnalyzeFinish ==
  /\ astate = "files"
  /\ pending = {}
  /\ astate' = "done"
  /\ folder_docs' = [d \in DOMAIN tree |-> FolderDoc(tree, d)]
  /\ disk' = DiskFile("json", Serialise(StoreContent), "save")
  /\ saved' = Flat(StoreContent)
  /\ sop' = StoreOp("save", "ok", EmptyDict)
  /\ UNCHANGED <<workspace, backend_up, root_dir, pending, tree, alog, index,
                 outer, inner, view, nonAnalyzer>>

NextAnalyze ==
  \/ AnalyzeStart
  \/ \E p \in WorkspacePaths : AnalyzeFile(p)
  \/ AnalyzeFinish

SpecAnalyze == InitAnalyze /\ [][NextAnalyze]_vars

\* The files analyze read, the symbols the contract indexes for one, and the
\* symbols a folder document lists for a file, a function of the functions
\* bucket counted under its func: key.
ReadFiles == {p \in IterPythonFiles(workspace) : workspace[p].readable}

ExpectedSymbols(p) ==
  LET file == workspace[p]
      classes == IF file.parses THEN file.classes ELSE <<>>
      functions == IF file.parses THEN file.functions ELSE <<>>
  IN  {"__module__"} \cup Range(classes)
        \cup {FuncStoreKey(functions[k]) : k \in 1..Len(functions)}

ListedSymbols(entries) ==
  (DOMAIN entries \ {"__functions__"})
    \cup (IF "__functions__" \in DOMAIN entries
          THEN {FuncStoreKey(n) : n \in DOMAIN entries["__functions__"].functions}
          ELSE {})

\* C20: after analyze, for every source file that was read the flat index
\* holds an entry under __module__, under each top-level class name and
\* under func:<name> for each top-level function, and the folder document
\* of the file's directory lists the file with those same symbols.
C20_EveryReadFileIndexed ==
  (astate = "done") =>
    \A p \in ReadFiles :
      /\ PathStr(p) \in DOMAIN StoreContent
      /\ DOMAIN StoreContent[PathStr(p)] = ExpectedSymbols(p)
      /\ DirStr(p) \in DOMAIN folder_docs
      /\ FileName(p) \in DOMAIN folder_docs[DirStr(p)].files
      /\ ListedSymbols(folder_docs[DirStr(p)].files[FileName(p)]) = ExpectedSymbols(p)

\* The files of the walk whose analysis has ended, by path.
Analyzed == {p \in DOMAIN workspace : PathStr(p) \in DOMAIN alog}

Failed == {p \in Analyzed : alog[PathStr(p)] # "ok"}

\* C21: an exception analyzing one file does not end the run: the loop goes
\* on with the files left, and at the end of analyze every file of the walk
\* has been taken, the folder documents are written and the flat index is
\* saved.
C21_FailureDoesNotAbort ==
  /\ astate \in {"idle", "files", "done"}
  /\ astate = "files" => pending \cup Analyzed = IterPythonFiles(workspace)
  /\ astate = "done" =>
       /\ Analyzed = IterPythonFiles(workspace)
       /\ "." \in DOMAIN folder_docs
       /\ DOMAIN folder_docs = DOMAIN tree
       /\ disk = DiskFile("json", Serialise(StoreContent), "save")

\* analyze has ended on a workspace of three files: the first one could not
\* be read, the others failed later, and all three were taken.
C21_Witness ==
  /\ astate = "done"
  /\ Cardinality(Analyzed) = 3
  /\ alog["a.py"] = "UnicodeDecodeError"
  /\ alog["pkg/b.py"] # "UnicodeDecodeError"
  /\ Failed = Analyzed

\* The folders from the root down to the one holding file p, and the folder
\* a folder lies in.
Ancestry(p) == {JoinParts(SubSeq(p, 1, k)) : k \in 0..(Len(p) - 1)}

ParentFolder(c) == JoinParts(SubSeq(FolderParts(c), 1, Len(FolderParts(c)) - 1))

\* In every document the subfolders entries are the documents of the
\* folder's children, whole.
SubtreesEmbedded ==
  \A d \in DOMAIN folder_docs :
    LET kids == {c \in DOMAIN folder_docs \ {"."} : ParentFolder(c) = d}
    IN  /\ DOMAIN folder_docs[d].subfolders = {FileName(FolderParts(c)) : c \in kids}
        /\ \A c \in kids :
             folder_docs[d].subfolders[FileName(FolderParts(c))] = folder_docs[c]

C29_SkippingLooksBelowRootOnly ==
  (astate # "idle") =>
    pending \cup Analyzed =
      {p \in DOMAIN workspace : \A k \in 1..(Len(p) - 1) : p[k] \notin SkippedDirs}

\* What the folder documents hold, by (file path, flat key): the entries of
\* every file of every folder, a function of the functions bucket under its
\* func: key.
DocPath(d, name) ==
  PathStr(CHOOSE p \in WorkspacePaths : DirStr(p) = d /\ FileName(p) = name)

DocSymbols(docs) ==
  UNION {UNION {{<<d, name, k>> : k \in ListedSymbols(docs[d].files[name])} :
                  name \in DOMAIN docs[d].files} : d \in DOMAIN docs}

DocEntry(docs, d, name, k) ==
  LET entries == docs[d].files[name]
      e == IF k \in DOMAIN entries THEN entries[k]
           ELSE LET n == CHOOSE n \in DOMAIN entries["__functions__"].functions :
                           FuncStoreKey(n) = k
                IN  entries["__functions__"].functions[n]
  IN  ClassMetadata(e.interface, e.summary)

DocFlat(docs) ==
  [pr \in {<<DocPath(x[1], x[2]), x[3]>> : x \in DocSymbols(docs)} |->
     LET x == CHOOSE x \in DocSymbols(docs) : <<DocPath(x[1], x[2]), x[3]>> = pr
     IN  DocEntry(docs, x[1], x[2], x[3])]

\* C28: after analyze the saved flat index and the folder documents hold the
\* same symbols with the same interface and summary, also when a flat index
\* file existed before the run and when the analysis of a file failed.
C28_FlatIndexMatchesTree ==
  (astate = "done") => saved = DocFlat(folder_docs)

\* C28 (amended): the flat index analyze saves is the index the file held
\* before the run with the entries of the folder documents written over it:
\* every symbol of a folder document is in it with the same interface and
\* summary, and every other entry of it is an entry of the earlier file.
C28_FlatIndexIsPriorPlusTree ==
  [][(astate = "files" /\ astate' = "done") =>
       saved' = Update(saved, DocFlat(folder_docs'))]_vars

\* analyze has ended on a workspace where a.py was read, with an index file
\* from an earlier run: the entry for Foo of a.py is in the saved index and
\* in no folder document.
C28_Witness ==
  /\ astate = "done"
  /\ <<"a.py">> \in ReadFiles
  /\ "a.py" \in DOMAIN folder_docs["."].files
  /\ <<"a.py", "Foo">> \in DOMAIN saved
  /\ <<"a.py", "Foo">> \notin DOMAIN DocFlat(folder_docs)

====
